---- MODULE Spec2Model ----
(***************************************************************************)
(* A model of the subtitle translator (translate_srt.py): the backend      *)
(* client post_with_retry, the batch chunker make_chunks, the quality      *)
(* validator, the markup protector, and the Translator's translate,        *)
(* review and translate_batch with its cache; the Translator's             *)
(* constructor, read_srt_file, parse_srt and write_srt, the command        *)
(* line's and the web worker's document pipelines (app.py), the web task   *)
(* registry with translate_worker, cleanup_worker and the /progress and    *)
(* /download requests, and the subtitle tracks of video_utils.py.          *)
(*                                                                         *)
(* A text is a sequence of tokens.  A token is one character (" ", "a",    *)
(* "!", ...), one markup tag ("<i>"), one placeholder ("__TAG_n__") or the *)
(* batch separator ("|||SEP|||"); len() weighs each token by the number of *)
(* characters it stands for.  Positions are 0-based as in the source;      *)
(* At0 reads a sequence at a 0-based position.                             *)
(***************************************************************************)
EXTENDS Integers, Sequences, FiniteSets, TLC

VARIABLES
    pc,           \* where the running call stands
    raised,       \* an exception escaped the running top-level call
    \* ---- post_with_retry's frame
    caller,       \* who called post_with_retry
    payload,      \* the json argument
    attempts,     \* the attempts argument
    backoff,      \* the backoff argument
    attempt,      \* the loop variable
    outcomes,     \* what each requests.post of this call did, in order
    sleeps,       \* the time.sleep durations of this call, in order
    resp,         \* the value post_with_retry returned
    \* ---- the Translator instance
    two_pass,     \* self.two_pass
    cache,        \* self._cache
    cache_hits,   \* self._cache_hits
    uuid_n,       \* placeholders generated so far (uuid.uuid4 is fresh)
    \* ---- translate's frame
    t_caller,     \* who called translate
    text,         \* the text argument
    prev_text,    \* the prev_text argument
    next_text,    \* the next_text argument
    tags,         \* the placeholder map of protect_tags(text)
    t_translated,   \* the candidate translation
    t_resp,       \* resp: what the first post_with_retry returned
    retry_resp,   \* what the validation retry returned
    t_posted,     \* this call made a POST
    t_retried,    \* this call issued the validation retry
    t_accepted,   \* the value returned is an accepted translation
    t_result,     \* the value returned
    \* ---- translate_batch's frame
    texts,        \* the texts argument
    max_chars,    \* the max_chars argument
    chunks,       \* make_chunks' result
    chunk_idx,    \* the chunk loop's index (-1 before the first chunk)
    protected_list, \* the chunk's protected texts
    tags_list,    \* the chunk's placeholder maps
    b_resp,       \* resp: what the chunk's post_with_retry returned
    translated_list, \* the chunk's translations
    seg_idx,      \* the fallback loop's index
    results,      \* the first-pass results
    reviewed,     \* the review pass's results
    retval,       \* the value translate_batch returned
    mode,         \* how the running chunk was settled
    fb_calls,     \* the texts the chunk's fallback passed to translate, in order
    res_accepted, \* per first-pass result: it is an accepted translation
    \* ---- the calls made on the instance so far
    calls,        \* the finished translate calls, in order
    \* ---- a function applied on its own
    arg,          \* the inputs of the call
    ret           \* what the call produced

retryVars == <<caller, payload, attempts, backoff, attempt, outcomes, sleeps, resp>>

instVars == <<two_pass, cache, cache_hits, uuid_n>>

trVars == <<t_caller, text, prev_text, next_text, tags, t_translated, t_resp,
            retry_resp, t_posted, t_retried, t_accepted, t_result>>

batchRest == <<chunk_idx, protected_list, tags_list, b_resp, translated_list,
               seg_idx, results, reviewed, retval, mode, fb_calls, res_accepted>>

batchVars == <<texts, max_chars, chunks, batchRest>>

nonRetryVars == <<instVars, trVars, batchVars, calls, arg, ret>>

vars == <<pc, raised, retryVars, instVars, trVars, batchVars, calls, arg, ret>>

\* ------------------------------------------------------------------ bounds

\* post_with_retry called on its own: the largest attempts argument tried.
MaxAttempts == 4

\* validate_translation applied on its own: the longest text built from
\* single characters.
MaxValidateLen == 2

\* make_chunks applied on its own: the longest input and the largest
\* max_chars tried.
MaxChunkSegs == 4

MaxChunkChars == 4

\* translate_batch: the longest texts argument tried.
MaxSegs == 3

\* translate called segment by segment: the number of calls.
MaxCalls == 2

\* The most lines of an SRT text given to parse_srt.
MaxLines == 5

\* protect_tags applied on its own: the longest text tried.
MaxTagText == 4

\* read_srt_file: the most bytes of a file.
MaxBytes == 4

\* probe_subtitle_tracks: the most streams of a container.
MaxStreams == 4

\* The clock of the task registry runs from 1 to MaxClock.
MaxClock == 3

\* The backoff arguments tried when post_with_retry is called on its own
\* (the call sites pass 1.0 and 0).
BackoffChoices == {0, 1, 3}

\* ------------------------------------------------------ program constants

\* translate's request: attempts=3, backoff=1.0.
TranslateAttempts == 3

TranslateBackoff == 1

\* The validation retry given two attempts.
RetryAttempts_twice == 1 + 1

\* translate's validation retry: attempts=1, backoff=0.
RetryAttempts == 1

RetryBackoff == 0

\* translate_batch's request: attempts=3, backoff=1.0.
BatchAttempts == 3

BatchBackoff == 1

\* A third attempt for review's request.
ReviewAttempts_thrice == 2 + 1

\* review's request: attempts=2, backoff=1.0.
ReviewAttempts == 2

ReviewBackoff == 1

\* ------------------------------------------------------------------- text

SEP == "|||SEP|||"

Tags == {"<i>", "</i>"}

\* One key for every match, in place of a fresh one.
Placeholder_reused(n) == "__TAG_" \o ToString(1) \o "__"

Placeholder(n) == "__TAG_" \o ToString(n) \o "__"

\* Placeholders the model can generate ("__TAG_" + 32 hex digits + "__").
Placeholders == {Placeholder(n) : n \in 1..8}

\* A placeholder the backend sent back altered: a token no key equals.
Mangled(t) == "~" \o t

MangledPlaceholders == {Mangled(t) : t \in Placeholders}

\* re \s, and the characters str.strip() removes
IsSpace(t) == t \in {" ", "\n", "\r"}

\* A token holding at least one \w character.
IsWord(t) == ~IsSpace(t) /\ t # "!"

\* The number of characters a token stands for.
TokLen(t) ==
    CASE t = SEP -> 9
      [] t = "<i>" -> 3
      [] t = "</i>" -> 4
      [] t \in Placeholders \cup MangledPlaceholders -> 40
      [] OTHER -> 1

RECURSIVE len(_)
len(s) == IF s = <<>> THEN 0 ELSE TokLen(Head(s)) + len(Tail(s))

RECURSIVE lstrip(_)
lstrip(s) == IF s # <<>> /\ IsSpace(Head(s)) THEN lstrip(Tail(s)) ELSE s

RECURSIVE rstrip(_)
rstrip(s) ==
    IF s # <<>> /\ IsSpace(s[Len(s)]) THEN rstrip(SubSeq(s, 1, Len(s) - 1)) ELSE s

\* str.strip()
strip(s) == rstrip(lstrip(s))

At0(seq, i) == seq[i + 1]

RECURSIVE Pow2(_)
Pow2(n) == IF n <= 0 THEN 1 ELSE 2 * Pow2(n - 1)

\* n times the token t.
Rep(t, n) == [i \in 1..n |-> t]

\* All sequences over S of length at most n.
SeqsUpTo(S, n) == UNION {[1..k -> S] : k \in 0..n}

\* ------------------------------------------------------ Markup Protector

\* protect_tags with n placeholders generated before the call: every match
\* of TAG_RE is replaced by a fresh placeholder, recorded in tags (a dict,
\* here the sequence of its <<key, value>> items in insertion order).
RECURSIVE protect_tags(_, _)
protect_tags(s, n) ==
    IF s = <<>> THEN [protected |-> <<>>, tags |-> <<>>, n |-> n]
    ELSE IF Head(s) \in Tags
    THEN LET key == Placeholder(n + 1)
             rest == protect_tags(Tail(s), n + 1)
         IN  [protected |-> <<key>> \o rest.protected,
              tags |-> <<<<key, Head(s)>>>> \o rest.tags,
              n |-> rest.n]
    ELSE LET rest == protect_tags(Tail(s), n)
         IN  [protected |-> <<Head(s)>> \o rest.protected,
              tags |-> rest.tags,
              n |-> rest.n]

\* str.replace(k, v)
replace(s, k, v) == [i \in 1..Len(s) |-> IF s[i] = k THEN v ELSE s[i]]

NotMangled(t) == t \notin MangledPlaceholders

\* A restoration that also removes the placeholders it cannot resolve.
restore_tags_drops_dangling(s, tagmap) ==
    LET Val(t) == IF \E k \in 1..Len(tagmap) : tagmap[k][1] = t
                  THEN tagmap[CHOOSE k \in 1..Len(tagmap) : tagmap[k][1] = t][2]
                  ELSE t
    IN  SelectSeq([i \in 1..Len(s) |-> Val(s[i])], NotMangled)

RECURSIVE restore_tags(_, _)
restore_tags(s, tagmap) ==
    IF tagmap = <<>> THEN s
    ELSE restore_tags(replace(s, tagmap[1][1], tagmap[1][2]), Tail(tagmap))

\* ----------------------------------------------------- Quality Validator

\* validate_translation comparing the texts as they are, untrimmed.
validate_translation_untrimmed(original, translated) ==
    IF translated = <<>> \/ strip(translated) = <<>> THEN FALSE
    ELSE IF translated = original THEN FALSE
    ELSE IF len(translated) > len(original) * 5 /\ len(original) > 10 THEN FALSE
    ELSE IF \A i \in 1..Len(translated) : ~IsWord(translated[i]) THEN FALSE
    ELSE TRUE

\* validate_translation applying the length ratio to short originals too.
validate_translation_ratio_always(original, translated) ==
    IF translated = <<>> \/ strip(translated) = <<>> THEN FALSE
    ELSE IF strip(translated) = strip(original) THEN FALSE
    ELSE IF len(translated) > len(original) * 5 THEN FALSE
    ELSE IF \A i \in 1..Len(translated) : ~IsWord(translated[i]) THEN FALSE
    ELSE TRUE

validate_translation(original, translated) ==
    IF translated = <<>> \/ strip(translated) = <<>> THEN FALSE
    ELSE IF strip(translated) = strip(original) THEN FALSE
    ELSE IF len(translated) > len(original) * 5 /\ len(original) > 10 THEN FALSE
    ELSE IF \A i \in 1..Len(translated) : ~IsWord(translated[i]) THEN FALSE
    ELSE TRUE

\* ---------------------------------------------------------- Batch Chunker

\* A chunk: (cur_start, cur).
Chunk(start, segs) == [start |-> start, segs |-> segs]

\* chunk_step recording the position after the one the new chunk starts at.
chunk_step_late_start(st, i, t, max_chars_local) ==
    LET closed == st.cur # <<>> /\ st.cur_len + len(t) > max_chars_local
        st1 == IF closed
               THEN [chunks |-> Append(st.chunks, Chunk(st.cur_start, st.cur)),
                     cur |-> <<>>, cur_start |-> i + 1, cur_len |-> 0]
               ELSE st
    IN  [st1 EXCEPT !.cur = Append(st1.cur, t), !.cur_len = st1.cur_len + len(t)]

\* chunk_step closing the chunk as soon as the limit is reached (>=).
chunk_step_closes_at_limit(st, i, t, max_chars_local) ==
    LET closed == st.cur # <<>> /\ st.cur_len + len(t) >= max_chars_local
        st1 == IF closed
               THEN [chunks |-> Append(st.chunks, Chunk(st.cur_start, st.cur)),
                     cur |-> <<>>, cur_start |-> i, cur_len |-> 0]
               ELSE st
    IN  [st1 EXCEPT !.cur = Append(st1.cur, t), !.cur_len = st1.cur_len + len(t)]

\* One iteration of make_chunks' loop, at position i with text t.
chunk_step(st, i, t, max_chars_local) ==
    LET closed == st.cur # <<>> /\ st.cur_len + len(t) > max_chars_local
        st1 == IF closed
               THEN [chunks |-> Append(st.chunks, Chunk(st.cur_start, st.cur)),
                     cur |-> <<>>, cur_start |-> i, cur_len |-> 0]
               ELSE st
    IN  [st1 EXCEPT !.cur = Append(st1.cur, t), !.cur_len = st1.cur_len + len(t)]

RECURSIVE chunk_loop(_, _, _, _)
chunk_loop(texts_list, max_chars_local, i, st) ==
    IF i >= Len(texts_list) THEN st
    ELSE chunk_loop(texts_list, max_chars_local, i + 1,
                    chunk_step(st, i, At0(texts_list, i), max_chars_local))

\* What make_chunks does with the open chunk once the loop is over.
chunk_flush(st) ==
    IF st.cur # <<>> THEN Append(st.chunks, Chunk(st.cur_start, st.cur)) ELSE st.chunks

make_chunks(texts_list, max_chars_local) ==
    chunk_flush(chunk_loop(texts_list, max_chars_local, 0,
                [chunks |-> <<>>, cur |-> <<>>, cur_start |-> 0, cur_len |-> 0]))

\* ---------------------------------------------------------------- backend

\* post_with_retry's None.
None == [kind |-> "none", status |-> 0, json |-> FALSE, body |-> <<>>]

\* requests.post raising requests.RequestException.
RequestException == [kind |-> "exc", status |-> 0, json |-> FALSE, body |-> <<>>]

\* A requests.Response: its status code, whether resp.json() yields a
\* mapping whose "response" is a string, and that string (json) or the raw
\* body resp.text (not json).
Response(status, json, body) ==
    [kind |-> "resp", status |-> status, json |-> json, body |-> body]

\* The json argument of a request: what the prompt is built from.  segs are
\* the (protected) texts to translate, or <<original, translated>> for a
\* review; prev, next and prevtr are the sliding-window context lines.
Payload(kind, segs, prev, next, prevtr) ==
    [kind |-> kind, segs |-> segs, prev |-> prev, next |-> next, prevtr |-> prevtr]

NoPayload == Payload("none", <<>>, <<>>, <<>>, <<>>)

\* What the model answers for one token of the source text.
TrTok(t) == CASE t = "a" -> "x" [] t = "b" -> "y" [] OTHER -> t

\* The backend's translation of a text: placeholders, blanks and
\* punctuation are kept where they stand.
Tr(s) == [i \in 1..Len(s) |-> TrTok(s[i])]

\* The model output as the backend sends it: surrounded by white space.
Padded(s) == <<" ">> \o s \o <<"\n">>

\* "\n|||SEP|||\n".join(parts)
RECURSIVE Join(_)
Join(parts) ==
    IF parts = <<>> THEN <<>>
    ELSE IF Len(parts) = 1 THEN parts[1]
    ELSE parts[1] \o <<"\n", SEP, "\n">> \o Join(Tail(parts))

\* "response" strings the backend may give to a single-segment request: a
\* translation, the source text echoed, punctuation only.
TranslateBodies(p) == {Padded(Tr(p)), p, <<"!">>}

\* Bodies that are not the expected structured data: a bare translation,
\* bare punctuation.
RawBodies(p) == {Padded(Tr(p)), <<"!", "\n">>}

\* The sequences of fragments the backend may send for a chunk: each
\* fragment a translation of its segment or punctuation only.
FragmentLists(segs) ==
    {f \in [1..Len(segs) -> {"good", "bad"}] : TRUE}

Fragments(segs, f) ==
    [i \in 1..Len(segs) |-> IF f[i] = "good" THEN Padded(Tr(segs[i])) ELSE <<"!">>]

AllGood(segs) == [i \in 1..Len(segs) |-> Padded(Tr(segs[i]))]

\* "response" strings the backend may give to a batch request: one fragment
\* per segment; one fragment too many; an empty fragment in front.
BatchBodies(segs) ==
    {Join(Fragments(segs, f)) : f \in FragmentLists(segs)}
    \cup {Join(Append(AllGood(segs), <<"x">>)),
          <<SEP>> \o Join(AllGood(segs))}

\* A runaway output of 56 characters.
Runaway == Rep(SEP, 6) \o <<"x", "x">>

\* "response" strings the reviewer may give: the translation as it is, a
\* correction, nothing, and (for the originals long enough for its length
\* to matter) a runaway output.
ReviewBodies(original, translated) ==
    {translated, Padded(Tr(original) \o <<"z">>), <<" ">>}
    \cup (IF len(original) >= 10 THEN {Runaway} ELSE {})

BodiesFor(pl) ==
    CASE pl.kind = "translate" -> TranslateBodies(pl.segs[1])
      [] pl.kind = "batch" -> BatchBodies(pl.segs)
      [] pl.kind = "review" -> ReviewBodies(pl.segs[1], pl.segs[2])
      [] OTHER -> {<<"x">>}

RawBodiesFor(pl) ==
    CASE pl.kind = "translate" -> RawBodies(pl.segs[1])
      [] OTHER -> {<<"!">>}

\* Every HTTP response requests.post may return for a request.
Responses(pl) ==
    {Response(200, TRUE, b) : b \in BodiesFor(pl)}
    \cup {Response(200, FALSE, b) : b \in RawBodiesFor(pl)}
    \cup {Response(500, FALSE, <<"!">>)}

\* -------------------------------------------------------- post_with_retry

\* The call post_with_retry(url, json=pl, attempts=n, backoff=b) by c.
StartPost(c, pl, n, b) ==
    /\ pc' = "post"
    /\ caller' = c
    /\ payload' = pl
    /\ attempts' = n
    /\ backoff' = b
    /\ attempt' = 1
    /\ outcomes' = <<>>
    /\ sleeps' = <<>>
    /\ resp' = None

\* PostRespond treating an error status as a failed attempt.
PostRespond_retries_error_status ==
    /\ pc = "post"
    /\ attempt <= attempts
    /\ \E r \in Responses(payload) :
        /\ outcomes' = Append(outcomes, r)
        /\ IF r.status = 200
           THEN resp' = r /\ pc' = "post_ret" /\ UNCHANGED <<attempt, sleeps>>
           ELSE /\ sleeps' = Append(sleeps, backoff * Pow2(attempt - 1))
                /\ attempt' = attempt + 1
                /\ UNCHANGED <<pc, resp>>
    /\ UNCHANGED <<raised, caller, payload, attempts, backoff>>
    /\ UNCHANGED nonRetryVars

\* requests.post returns a response, whatever its status: it is returned.
PostRespond ==
    /\ pc = "post"
    /\ attempt <= attempts
    /\ \E r \in Responses(payload) :
        /\ outcomes' = Append(outcomes, r)
        /\ resp' = r
        /\ pc' = "post_ret"
    /\ UNCHANGED <<raised, caller, payload, attempts, backoff, attempt, sleeps>>
    /\ UNCHANGED nonRetryVars

\* requests.post raises RequestException: sleep, then the next iteration.
PostRaise ==
    /\ pc = "post"
    /\ attempt <= attempts
    /\ outcomes' = Append(outcomes, RequestException)
    /\ sleeps' = Append(sleeps, backoff * Pow2(attempt - 1))
    /\ attempt' = attempt + 1
    /\ UNCHANGED <<pc, raised, caller, payload, attempts, backoff, resp>>
    /\ UNCHANGED nonRetryVars

\* The loop is over: return None.
PostExhausted ==
    /\ pc = "post"
    /\ attempt > attempts
    /\ resp' = None
    /\ pc' = "post_ret"
    /\ UNCHANGED <<raised, caller, payload, attempts, backoff, attempt, outcomes, sleeps>>
    /\ UNCHANGED nonRetryVars

\* The frame of a post_with_retry call that has returned is dropped.
PopPost ==
    /\ caller' = "none"
    /\ payload' = NoPayload
    /\ attempts' = 0
    /\ backoff' = 0
    /\ attempt' = 0
    /\ outcomes' = <<>>
    /\ sleeps' = <<>>
    /\ resp' = None

\* post_with_retry called on its own.
CallPost ==
    /\ pc = "idle"
    /\ \E n \in 0..MaxAttempts, b \in BackoffChoices :
        StartPost("direct", Payload("direct", <<>>, <<>>, <<>>, <<>>), n, b)
    /\ UNCHANGED <<raised>>
    /\ UNCHANGED nonRetryVars

Init ==
    /\ pc = "idle"
    /\ raised = FALSE
    /\ caller = "none"
    /\ payload = NoPayload
    /\ attempts = 0
    /\ backoff = 0
    /\ attempt = 0
    /\ outcomes = <<>>
    /\ sleeps = <<>>
    /\ resp = None
    /\ two_pass \in BOOLEAN
    /\ cache = <<>>
    /\ cache_hits = 0
    /\ uuid_n = 0
    /\ t_caller = "none"
    /\ text = <<>>
    /\ prev_text = <<>>
    /\ next_text = <<>>
    /\ tags = <<>>
    /\ t_translated = <<>>
    /\ t_resp = None
    /\ retry_resp = None
    /\ t_posted = FALSE
    /\ t_retried = FALSE
    /\ t_accepted = FALSE
    /\ t_result = <<>>
    /\ texts = <<>>
    /\ max_chars = 0
    /\ chunks = <<>>
    /\ chunk_idx = 0 - 1
    /\ protected_list = <<>>
    /\ tags_list = <<>>
    /\ b_resp = None
    /\ translated_list = <<>>
    /\ seg_idx = 0
    /\ results = <<>>
    /\ reviewed = <<>>
    /\ retval = <<>>
    /\ mode = "none"
    /\ fb_calls = <<>>
    /\ res_accepted = <<>>
    /\ calls = <<>>
    /\ arg = <<>>
    /\ ret = <<>>

\* The number of requests.post calls of the running post_with_retry.
posts == Len(outcomes)

NextRetry == CallPost \/ PostRespond \/ PostRaise \/ PostExhausted

SpecRetry == Init /\ [][NextRetry]_vars

\* -------------------------------------------------- Translator.translate

\* cache_key taken from the text as passed.
cache_key_untrimmed(t) == t

\* cache_key = text.strip()
cache_key(t) == strip(t)

\* A store that keeps the newest entry only.
CachePut_evicts(c, key, value) == [k \in {key} |-> value]

\* self._cache[key] = value
CachePut(c, key, value) ==
    [k \in DOMAIN c \cup {key} |-> IF k = key THEN value ELSE c[k]]

\* data = resp.json(); data.get("response", "").strip(): raises when the
\* body is not the expected structured data.
ParseResponse(r) == [exc |-> ~r.json, val |-> strip(r.body)]

\* TranslateCandidate without its except branch.
TranslateCandidate_no_except(r) == ParseResponse(r)

\* TranslateCandidate taking the raw body as it is sent.
TranslateCandidate_untrimmed(r) ==
    LET parsed == ParseResponse(r)
    IN  IF parsed.exc THEN [exc |-> FALSE, val |-> r.body] ELSE parsed

\* The candidate translation of a 200 reply: the parsed "response", or in
\* the except branch the raw body, trimmed.
TranslateCandidate(r) ==
    LET parsed == ParseResponse(r)
    IN  IF parsed.exc THEN [exc |-> FALSE, val |-> strip(r.body)] ELSE parsed

\* The candidate after the validation retry: the retry's parsed "response"
\* when it is a 200 reply that parses, else the first candidate.
RetryCandidate(r, first) ==
    IF r.kind = "resp" /\ r.status = 200
    THEN LET parsed == ParseResponse(r)
         IN  IF parsed.exc THEN [exc |-> FALSE, val |-> first] ELSE parsed
    ELSE [exc |-> FALSE, val |-> first]

\* return v
TranslateReturn(v, accepted) ==
    /\ pc' = "t_ret"
    /\ t_result' = v
    /\ t_accepted' = accepted

\* An exception leaves the running top-level call.
Raise ==
    /\ pc' = "failed"
    /\ raised' = TRUE

\* The translation passed validation: restore the tags, store and return.
TranslateAccept(candidate) ==
    LET result == restore_tags(candidate, tags)
    IN  /\ cache' = CachePut(cache, cache_key(text), result)
        /\ TranslateReturn(result, TRUE)

\* A blank test that lets white space through.
is_blank_empty_only(t) == t = <<>>

\* not text.strip()
is_blank(t) == strip(t) = <<>>

\* The call translate(t, prev_text=p, next_text=n) by c, up to its first
\* request: blank text and cache hits return at once.
EnterTranslate(c, t, p, n) ==
    /\ t_caller' = c
    /\ text' = t
    /\ prev_text' = p
    /\ next_text' = n
    /\ t_translated' = <<>>
    /\ t_resp' = None
    /\ retry_resp' = None
    /\ t_retried' = FALSE
    /\ IF is_blank(t)
       THEN /\ TranslateReturn(t, FALSE)
            /\ t_posted' = FALSE
            /\ tags' = <<>>
            /\ UNCHANGED <<cache, cache_hits, uuid_n, retryVars>>
       ELSE IF cache_key(t) \in DOMAIN cache
       THEN /\ cache_hits' = cache_hits + 1
            /\ TranslateReturn(cache[cache_key(t)], TRUE)
            /\ t_posted' = FALSE
            /\ tags' = <<>>
            /\ UNCHANGED <<cache, uuid_n, retryVars>>
       ELSE LET p_t == protect_tags(t, uuid_n)
            IN  /\ tags' = p_t.tags
                /\ uuid_n' = p_t.n
                /\ t_posted' = TRUE
                /\ StartPost("translate",
                             Payload("translate", <<p_t.protected>>, p, n, <<>>),
                             TranslateAttempts, TranslateBackoff)
                /\ UNCHANGED <<cache, cache_hits, t_result, t_accepted>>

\* TranslateAfterPost testing only for None, not for the status code.
TranslateAfterPost_ignores_status ==
    /\ pc = "post_ret"
    /\ caller = "translate"
    /\ t_resp' = resp
    /\ IF resp = None
       THEN /\ TranslateReturn(text, FALSE)
            /\ PopPost
            /\ UNCHANGED <<raised, cache, t_translated, t_retried>>
       ELSE LET c == TranslateCandidate(resp)
            IN  IF c.exc
                THEN /\ Raise
                     /\ PopPost
                     /\ UNCHANGED <<cache, t_translated, t_retried, t_accepted, t_result>>
                ELSE /\ t_translated' = c.val
                     /\ IF ~validate_translation(text, c.val)
                        THEN /\ StartPost("translate_retry", payload,
                                          RetryAttempts, RetryBackoff)
                             /\ t_retried' = TRUE
                             /\ UNCHANGED <<raised, cache, t_accepted, t_result>>
                        ELSE /\ TranslateAccept(c.val)
                             /\ PopPost
                             /\ UNCHANGED <<raised, t_retried>>
    /\ UNCHANGED <<two_pass, cache_hits, uuid_n, t_caller, text, prev_text,
                   next_text, tags, retry_resp, t_posted, batchVars, calls, arg, ret>>

\* translate once its request has returned: degrade, accept, or retry once.
TranslateAfterPost ==
    /\ pc = "post_ret"
    /\ caller = "translate"
    /\ t_resp' = resp
    /\ IF resp = None \/ resp.status # 200
       THEN /\ TranslateReturn(text, FALSE)
            /\ PopPost
            /\ UNCHANGED <<raised, cache, t_translated, t_retried>>
       ELSE LET c == TranslateCandidate(resp)
            IN  IF c.exc
                THEN /\ Raise
                     /\ PopPost
                     /\ UNCHANGED <<cache, t_translated, t_retried, t_accepted, t_result>>
                ELSE /\ t_translated' = c.val
                     /\ IF ~validate_translation(text, c.val)
                        THEN /\ StartPost("translate_retry", payload,
                                          RetryAttempts, RetryBackoff)
                             /\ t_retried' = TRUE
                             /\ UNCHANGED <<raised, cache, t_accepted, t_result>>
                        ELSE /\ TranslateAccept(c.val)
                             /\ PopPost
                             /\ UNCHANGED <<raised, t_retried>>
    /\ UNCHANGED <<two_pass, cache_hits, uuid_n, t_caller, text, prev_text,
                   next_text, tags, retry_resp, t_posted, batchVars, calls, arg, ret>>

\* translate once its validation retry has returned.
TranslateAfterRetry ==
    /\ pc = "post_ret"
    /\ caller = "translate_retry"
    /\ retry_resp' = resp
    /\ LET c == RetryCandidate(resp, t_translated)
       IN  IF c.exc
           THEN /\ Raise
                /\ UNCHANGED <<cache, t_translated, t_accepted, t_result>>
           ELSE /\ t_translated' = c.val
                /\ IF ~validate_translation(text, c.val)
                   THEN TranslateReturn(text, FALSE) /\ UNCHANGED <<raised, cache>>
                   ELSE TranslateAccept(c.val) /\ UNCHANGED raised
    /\ PopPost
    /\ UNCHANGED <<two_pass, cache_hits, uuid_n, t_caller, text, prev_text,
                   next_text, tags, t_resp, t_posted, t_retried, batchVars, calls, arg, ret>>

\* The frame of a translate call that has returned is dropped.
PopTranslate ==
    /\ t_caller' = "none"
    /\ text' = <<>>
    /\ prev_text' = <<>>
    /\ next_text' = <<>>
    /\ tags' = <<>>
    /\ t_translated' = <<>>
    /\ t_resp' = None
    /\ retry_resp' = None
    /\ t_posted' = FALSE
    /\ t_retried' = FALSE
    /\ t_accepted' = FALSE
    /\ t_result' = <<>>

\* ------------------------------------- translate called segment by segment

\* The texts translate is called with, and the context lines.
TranslateTexts ==
    {<<>>, <<"a">>, <<" ", "a">>, <<"b", " ">>, <<" ">>, <<"<i>", "b">>}

Contexts == {<<>>, <<"b">>}

\* A caller (the command line's loop over the blocks) calls translate.
CallTranslate ==
    /\ pc = "idle"
    /\ Len(calls) < MaxCalls
    /\ \E t \in TranslateTexts, p \in Contexts, n \in Contexts :
        EnterTranslate("top", t, p, n)
    /\ UNCHANGED <<raised, two_pass, batchVars, calls, arg, ret>>

\* translate has returned to that caller.
TopReturn ==
    /\ pc = "t_ret"
    /\ t_caller = "top"
    /\ calls' = Append(calls, [text |-> text, result |-> t_result,
                               posted |-> t_posted, accepted |-> t_accepted])
    /\ PopTranslate
    /\ pc' = "idle"
    /\ UNCHANGED <<raised, retryVars, instVars, batchVars, arg, ret>>

NextTranslate ==
    \/ CallTranslate
    \/ PostRespond
    \/ PostRaise
    \/ PostExhausted
    \/ TranslateAfterPost
    \/ TranslateAfterRetry
    \/ TopReturn

SpecTranslate == Init /\ [][NextTranslate]_vars

\* ------------------------------------------------------ Translator.review

\* ReviewResult without the length guard.
ReviewResult_any_length(r, original, translated) ==
    IF r = None \/ r.status # 200 THEN translated
    ELSE IF ParseResponse(r).exc THEN translated
    ELSE LET out == ParseResponse(r).val
         IN  IF out = <<>> \/ strip(out) = <<>> THEN translated ELSE out

\* review once its request has returned (the blank arguments were returned
\* before it was made): the reviewer's trimmed output, or translated kept.
ReviewResult(r, original, translated) ==
    IF r = None \/ r.status # 200 THEN translated
    ELSE IF ParseResponse(r).exc THEN translated
    ELSE LET out == ParseResponse(r).val
         IN  IF out = <<>> \/ strip(out) = <<>> THEN translated
             ELSE IF len(out) > len(original) * 5 /\ len(original) > 10 THEN translated
             ELSE out

\* --------------------------------------------- Translator.translate_batch

RECURSIVE protect_all(_, _)
protect_all(segs, n) ==
    IF segs = <<>> THEN [protected_list |-> <<>>, tags_list |-> <<>>, n |-> n]
    ELSE LET p_t == protect_tags(Head(segs), n)
             rest == protect_all(Tail(segs), p_t.n)
         IN  [protected_list |-> <<p_t.protected>> \o rest.protected_list,
              tags_list |-> <<p_t.tags>> \o rest.tags_list,
              n |-> rest.n]

\* str.split(SEP)
RECURSIVE split(_)
split(s) ==
    IF \E i \in 1..Len(s) : s[i] = SEP
    THEN LET i == CHOOSE k \in 1..Len(s) : s[k] = SEP /\ \A j \in 1..(k - 1) : s[j] # SEP
         IN  <<SubSeq(s, 1, i - 1)>> \o split(SubSeq(s, i + 1, Len(s)))
    ELSE <<s>>

\* [p for p in parts if p]
RECURSIVE non_empty(_)
non_empty(parts) ==
    IF parts = <<>> THEN <<>>
    ELSE IF Head(parts) = <<>> THEN non_empty(Tail(parts))
    ELSE <<Head(parts)>> \o non_empty(Tail(parts))

\* The fragments of a reply: split on the separator, each trimmed, the empty
\* ones removed.
Parts(body) ==
    LET raw == split(body)
    IN  non_empty([i \in 1..Len(raw) |-> strip(raw[i])])

\* The parse is kept only when it has one fragment per segment.
count_accepts(parts, chunk) == Len(parts) = Len(chunk)

\* BatchParse cutting a longer parse down to the chunk's size.
BatchParse_truncates(r, chunk) ==
    IF ~r.json THEN [exc |-> FALSE, val |-> <<>>]
    ELSE LET parts == Parts(r.body)
         IN  [exc |-> FALSE,
              val |-> IF Len(parts) >= Len(chunk) THEN SubSeq(parts, 1, Len(chunk)) ELSE <<>>]

\* The try block parsing a 200 reply: translated_list, or [] when the count
\* is wrong or anything raised.
BatchParse(r, chunk) ==
    IF ~r.json THEN [exc |-> FALSE, val |-> <<>>]
    ELSE LET parts == Parts(r.body)
         IN  [exc |-> FALSE, val |-> IF count_accepts(parts, chunk) THEN parts ELSE <<>>]

bad_count(chunk, tl) ==
    Cardinality({i \in 1..Len(chunk) : ~validate_translation(chunk[i], tl[i])})

\* BatchValidate discarding the parse already when half of it fails.
BatchValidate_at_half(chunk, tl) ==
    IF tl # <<>> /\ Len(tl) = Len(chunk) /\ 2 * bad_count(chunk, tl) >= Len(chunk)
    THEN <<>>
    ELSE tl

\* The validation of a parsed chunk: [] (forcing the fallback) when more
\* than half of its fragments fail validate_translation.
BatchValidate(chunk, tl) ==
    IF tl # <<>> /\ Len(tl) = Len(chunk) /\ 2 * bad_count(chunk, tl) > Len(chunk)
    THEN <<>>
    ELSE tl

\* for translated, tags in zip(translated_list, tags_list): restore_tags
RestoreAll(tl, tgl) ==
    LET n == IF Len(tl) < Len(tgl) THEN Len(tl) ELSE Len(tgl)
    IN  [i \in 1..n |-> restore_tags(tl[i], tgl[i])]

\* A failed chunk left out of the results.
DegradedOutputs_dropped(chunk) == <<>>

\* results.extend(chunk) of a chunk whose request failed.
DegradedOutputs(chunk) == chunk

\* The previous neighbour looked up inside the chunk only.
fallback_prev_within_chunk(all_texts, chunk, chunk_start, idx) ==
    IF idx > 0 THEN At0(chunk, idx - 1) ELSE <<>>

\* The sliding window of the fallback: the neighbours of global_idx in texts.
fallback_prev(all_texts, chunk, chunk_start, idx) ==
    LET global_idx == chunk_start + idx
    IN  IF global_idx > 0 THEN At0(all_texts, global_idx - 1) ELSE <<>>

fallback_next(all_texts, chunk, chunk_start, idx) ==
    LET global_idx == chunk_start + idx
    IN  IF global_idx < Len(all_texts) - 1 THEN At0(all_texts, global_idx + 1) ELSE <<>>

CurChunk == At0(chunks, chunk_idx)

Flags(n, b) == [i \in 1..n |-> b]

\* The texts translate_batch is called with, and the max_chars arguments.
BatchTexts == {<<"a">>, <<" ", "b">>, <<" ">>}

MaxCharsChoices == {2, 4}

\* translate_batch(t, max_chars=m) up to the chunk loop.
CallBatch ==
    /\ pc = "idle"
    /\ \E t \in SeqsUpTo(BatchTexts, MaxSegs), m \in MaxCharsChoices :
        /\ texts' = t
        /\ max_chars' = m
        /\ IF t = <<>>
           THEN /\ retval' = <<>>
                /\ pc' = "done"
                /\ UNCHANGED chunks
           ELSE /\ chunks' = make_chunks(t, m)
                /\ pc' = "next"
                /\ UNCHANGED retval
    /\ UNCHANGED <<raised, retryVars, instVars, trVars, chunk_idx, protected_list,
                   tags_list, b_resp, translated_list, seg_idx, results, reviewed,
                   mode, fb_calls, res_accepted, calls, arg, ret>>

\* The review pass run whatever two_pass says.
review_enabled_always(tp, res) == res # <<>>

\* self.two_pass and results
review_enabled(tp, res) == tp /\ res # <<>>

\* The head of the chunk loop: the next chunk's request, or, after the last
\* chunk, the review pass or the return; the locals of the chunk loop are
\* not read after it and are dropped.
BatchNextChunk ==
    /\ pc = "next"
    /\ IF chunk_idx + 1 < Len(chunks)
       THEN LET chunk == At0(chunks, chunk_idx + 1).segs
                p_a == protect_all(chunk, uuid_n)
            IN  /\ chunk_idx' = chunk_idx + 1
                /\ protected_list' = p_a.protected_list
                /\ tags_list' = p_a.tags_list
                /\ uuid_n' = p_a.n
                /\ b_resp' = None
                /\ translated_list' = <<>>
                /\ seg_idx' = 0
                /\ mode' = "pending"
                /\ fb_calls' = <<>>
                /\ StartPost("batch",
                             Payload("batch", p_a.protected_list, <<>>, <<>>, <<>>),
                             BatchAttempts, BatchBackoff)
                /\ UNCHANGED <<reviewed, retval>>
       ELSE /\ IF review_enabled(two_pass, results)
               THEN pc' = "review" /\ reviewed' = <<>> /\ UNCHANGED retval
               ELSE pc' = "done" /\ retval' = results /\ UNCHANGED reviewed
            /\ protected_list' = <<>>
            /\ tags_list' = <<>>
            /\ b_resp' = None
            /\ translated_list' = <<>>
            /\ seg_idx' = 0
            /\ mode' = "none"
            /\ fb_calls' = <<>>
            /\ UNCHANGED <<retryVars, uuid_n, chunk_idx>>
    /\ UNCHANGED <<raised, two_pass, cache, cache_hits, trVars, texts, max_chars,
                   chunks, results, res_accepted, calls, arg, ret>>

\* The failure test looking for None only.
request_failed_none_only(r) == r = None

\* resp is None, or resp.status_code != 200
request_failed(r) == r = None \/ r.status # 200

\* translate_batch once the chunk's request has returned: degrade to the
\* original texts, accept the parse, or start the per-segment fallback.
BatchAfterPost ==
    /\ pc = "post_ret"
    /\ caller = "batch"
    /\ b_resp' = resp
    /\ PopPost
    /\ LET chunk == CurChunk.segs
       IN  IF request_failed(resp)
           THEN /\ results' = results \o DegradedOutputs(chunk)
                /\ res_accepted' = res_accepted \o Flags(Len(DegradedOutputs(chunk)), FALSE)
                /\ mode' = "degraded"
                /\ pc' = "next"
                /\ UNCHANGED <<raised, translated_list>>
           ELSE LET parsed == BatchParse(resp, chunk)
                    tl == BatchValidate(chunk, parsed.val)
                IN  IF parsed.exc
                    THEN /\ Raise
                         /\ UNCHANGED <<results, res_accepted, mode, translated_list>>
                    ELSE IF tl # <<>> /\ Len(tl) = Len(chunk)
                    THEN /\ translated_list' = tl
                         /\ results' = results \o RestoreAll(tl, tags_list)
                         /\ res_accepted' = res_accepted \o Flags(Len(tl), TRUE)
                         /\ mode' = "accepted"
                         /\ pc' = "next"
                         /\ UNCHANGED raised
                    ELSE /\ translated_list' = <<>>
                         /\ mode' = "fallback"
                         /\ pc' = "fallback"
                         /\ UNCHANGED <<raised, results, res_accepted>>
    /\ UNCHANGED <<instVars, trVars, texts, max_chars, chunks, chunk_idx,
                   protected_list, tags_list, seg_idx, reviewed, retval, fb_calls, calls, arg, ret>>

\* The head of the fallback loop: translate the next segment of the chunk,
\* or, after the last, restore the tags and append to the results.
BatchFallbackSeg ==
    /\ pc = "fallback"
    /\ LET chunk == CurChunk.segs
       IN  IF seg_idx < Len(chunk)
           THEN /\ EnterTranslate("batch", At0(chunk, seg_idx),
                                  fallback_prev(texts, chunk, CurChunk.start, seg_idx),
                                  fallback_next(texts, chunk, CurChunk.start, seg_idx))
                /\ fb_calls' = Append(fb_calls, At0(chunk, seg_idx))
                /\ UNCHANGED results
           ELSE /\ results' = results \o RestoreAll(translated_list, tags_list)
                /\ pc' = "next"
                /\ UNCHANGED <<retryVars, cache, cache_hits, uuid_n, trVars, fb_calls, arg, ret>>
    /\ UNCHANGED <<raised, two_pass, texts, max_chars, chunks, chunk_idx,
                   protected_list, tags_list, b_resp, translated_list, seg_idx,
                   reviewed, retval, mode, res_accepted, calls, arg, ret>>

\* translate has returned to the fallback loop.
BatchFallbackReturn ==
    /\ pc = "t_ret"
    /\ t_caller = "batch"
    /\ translated_list' = Append(translated_list, t_result)
    /\ res_accepted' = Append(res_accepted, t_accepted)
    /\ seg_idx' = seg_idx + 1
    /\ PopTranslate
    /\ pc' = "fallback"
    /\ UNCHANGED <<raised, retryVars, instVars, texts, max_chars, chunks, chunk_idx,
                   protected_list, tags_list, b_resp, results, reviewed, retval,
                   mode, fb_calls, calls, arg, ret>>

\* The previous segment's translation taken from the reviewed list.
review_prev_trans_corrected(res, rev, i) == IF i > 0 THEN At0(rev, i - 1) ELSE <<>>

\* prev_trans = results[i - 1] if i > 0 else ""
review_prev_trans(res, rev, i) == IF i > 0 THEN At0(res, i - 1) ELSE <<>>

\* The head of the review loop: review the next result (a blank original or
\* translation is returned at once), or, after the last, return.
ReviewNext ==
    /\ pc = "review"
    /\ LET i == Len(reviewed)
       IN  IF i < Len(results) /\ i < Len(texts)
           THEN LET orig == At0(texts, i)
                    trans == At0(results, i)
                    prev_orig == IF i > 0 THEN At0(texts, i - 1) ELSE <<>>
                    prev_trans == review_prev_trans(results, reviewed, i)
                    next_orig == IF i < Len(texts) - 1 THEN At0(texts, i + 1) ELSE <<>>
                IN  IF strip(trans) = <<>> \/ strip(orig) = <<>>
                    THEN /\ reviewed' = Append(reviewed, trans)
                         /\ UNCHANGED <<pc, retryVars, retval>>
                    ELSE /\ StartPost("review",
                                      Payload("review", <<orig, trans>>, prev_orig,
                                              next_orig, prev_trans),
                                      ReviewAttempts, ReviewBackoff)
                         /\ UNCHANGED <<reviewed, retval>>
           ELSE /\ retval' = reviewed
                /\ pc' = "done"
                /\ UNCHANGED <<retryVars, reviewed>>
    /\ UNCHANGED <<raised, instVars, trVars, texts, max_chars, chunks, chunk_idx,
                   protected_list, tags_list, b_resp, translated_list, seg_idx,
                   results, mode, fb_calls, res_accepted, calls, arg, ret>>

\* review once its request has returned.
ReviewAfterPost ==
    /\ pc = "post_ret"
    /\ caller = "review"
    /\ reviewed' = Append(reviewed, ReviewResult(resp, payload.segs[1], payload.segs[2]))
    /\ PopPost
    /\ pc' = "review"
    /\ UNCHANGED <<raised, instVars, trVars, texts, max_chars, chunks, chunk_idx,
                   protected_list, tags_list, b_resp, translated_list, seg_idx,
                   results, retval, mode, fb_calls, res_accepted, calls, arg, ret>>

Next ==
    \/ CallBatch
    \/ BatchNextChunk
    \/ PostRespond
    \/ PostRaise
    \/ PostExhausted
    \/ BatchAfterPost
    \/ BatchFallbackSeg
    \/ TranslateAfterPost
    \/ TranslateAfterRetry
    \/ BatchFallbackReturn
    \/ ReviewNext
    \/ ReviewAfterPost

Spec == Init /\ [][Next]_vars

\* ------------------------------------------------- make_chunks on its own

ChunkTexts == {<<>>, <<"a">>, <<"b", "b">>, <<"a", "b", "a">>}

MakeChunksCall ==
    /\ pc = "idle"
    /\ \E t \in SeqsUpTo(ChunkTexts, MaxChunkSegs), m \in (0 - 1)..MaxChunkChars :
        /\ texts' = t
        /\ max_chars' = m
        /\ chunks' = make_chunks(t, m)
    /\ pc' = "chunked"
    /\ UNCHANGED <<raised, retryVars, instVars, trVars, batchRest, calls, arg, ret>>

NextChunks == MakeChunksCall

SpecChunks == Init /\ [][NextChunks]_vars

\* ------------------------------------------------------ review on its own

\* The originals and first-pass translations review is called with.
ReviewOriginals == {<<>>, <<" ">>, <<"a">>, <<SEP, "a">>, <<SEP, "a", "a">>}

ReviewTranslations == {<<>>, <<" ">>, <<"x">>, <<" ", "y">>}

\* review(original, translated) is called: the call is the one iteration
\* of the review loop over a single text and its result.
CallReview ==
    /\ pc = "idle"
    /\ \E o \in ReviewOriginals, t \in ReviewTranslations :
        /\ texts' = <<o>>
        /\ results' = <<t>>
    /\ reviewed' = <<>>
    /\ pc' = "review"
    /\ UNCHANGED <<raised, retryVars, instVars, trVars, max_chars, chunks,
                   chunk_idx, protected_list, tags_list, b_resp, translated_list,
                   seg_idx, retval, mode, fb_calls, res_accepted, calls, arg, ret>>

NextReview ==
    \/ CallReview
    \/ ReviewNext
    \/ PostRespond
    \/ PostRaise
    \/ PostExhausted
    \/ ReviewAfterPost

SpecReview == Init /\ [][NextReview]_vars

\* ------------------------------------------- the web worker's batch call

\* The parameters of translate_batch(self, texts, max_chars=2000).
BatchParameters == {"texts", "max_chars"}

\* The arguments of the worker's call: texts by position, the rest by
\* keyword.
WorkerPositional == <<"texts">>

WorkerKeywords == {"max_chars", "on_progress", "on_phase"}

\* Python's argument binding: every keyword must name a parameter that no
\* positional argument has filled; otherwise the call raises TypeError
\* before the body runs.
Binds(parameters, positional, keywords) ==
    /\ keywords \subseteq parameters
    /\ \A i \in 1..Len(positional) : positional[i] \notin keywords

\* translate_worker calls translator.translate_batch(texts, max_chars=...,
\* on_progress=..., on_phase=...); an exception ends the task with status
\* "error".
WorkerCallBatch ==
    /\ pc = "idle"
    /\ \E t \in SeqsUpTo(BatchTexts, MaxSegs), m \in MaxCharsChoices :
        /\ texts' = t
        /\ max_chars' = m
        /\ IF Binds(BatchParameters, WorkerPositional, WorkerKeywords)
           THEN /\ IF t = <<>>
                   THEN retval' = <<>> /\ pc' = "done" /\ UNCHANGED chunks
                   ELSE chunks' = make_chunks(t, m) /\ pc' = "next" /\ UNCHANGED retval
                /\ UNCHANGED raised
           ELSE /\ pc' = "task_error"
                /\ raised' = TRUE
                /\ UNCHANGED <<chunks, retval>>
    /\ UNCHANGED <<retryVars, instVars, trVars, chunk_idx, protected_list,
                   tags_list, b_resp, translated_list, seg_idx, results, reviewed,
                   mode, fb_calls, res_accepted, calls, arg, ret>>

NextWorker == WorkerCallBatch

SpecWorker == Init /\ [][NextWorker]_vars

\* ---------------------------------------- validate_translation on its own

\* Originals: short texts, "Hello", and texts of 10 and of 11 characters.
ValidateOriginals ==
    SeqsUpTo({" ", "a", "!"}, MaxValidateLen)
    \cup {Rep("a", 5), <<SEP, "a">>, <<SEP, "a", "a">>, <<" ", SEP, "a", "a", "\n">>}

\* Translations: short texts, "H" * 100, and texts of 50, 51, 55 and 56
\* characters.
ValidateTranslations ==
    SeqsUpTo({" ", "a", "x", "!"}, MaxValidateLen)
    \cup {Rep("x", 100), Rep("!", 100), <<SEP, "a", "a">>,
          Rep(SEP, 5) \o Rep("x", 5), Rep(SEP, 5) \o Rep("x", 6),
          Rep(SEP, 6) \o <<"x">>, Rep(SEP, 6) \o <<"x", "x">>}

\* validate_translation(original, translated) is called and its value kept.
ValidateCall ==
    /\ pc = "idle"
    /\ \E o \in ValidateOriginals, t \in ValidateTranslations :
        /\ text' = o
        /\ t_translated' = t
        /\ t_accepted' = validate_translation(o, t)
    /\ pc' = "validated"
    /\ UNCHANGED <<raised, retryVars, instVars, batchVars, calls, arg, ret,
                   t_caller,
                   prev_text, next_text, tags, t_resp, retry_resp, t_posted,
                   t_retried, t_result>>

NextValidate == ValidateCall

SpecValidate == Init /\ [][NextValidate]_vars

\* ------------------------------------------------- Translator.__init__

\* A model is available when its name occurs inside one of the listed
\* names (`model in m`), so "gemma" is found in "gemma:4b".
Occurs(name, listed) ==
    \/ name = listed
    \/ name = "gemma" /\ listed = "gemma:4b"

available_has(name, available) == \E m \in available : Occurs(name, m)

\* What requests.get for /api/tags can do: raise ConnectionError, raise
\* another exception of requests (a read timeout), or answer.
TagsOutcomes ==
    {[kind |-> "ConnectionError"], [kind |-> "ReadTimeout"]}
    \cup {[kind |-> "resp", status |-> st, models |-> av] :
            st \in {200, 500}, av \in SUBSET {"gemma:4b", "qwen", "other"}}

\* The constructor's outcome: the instance, or the exception that leaves it.
translator_init(model, tp, review_model_arg, tags_resp, tty) ==
    LET review_model == IF review_model_arg = "" THEN model ELSE review_model_arg
    IN  IF tags_resp.kind = "ConnectionError" THEN "RuntimeError"
        ELSE IF tags_resp.kind # "resp" THEN tags_resp.kind
        ELSE IF tags_resp.status # 200 THEN "Exception"
        ELSE IF tty
                /\ ~available_has(model, tags_resp.models) THEN "SystemExit"
        ELSE IF tty /\ tp /\ review_model # model
                /\ ~available_has(review_model, tags_resp.models) THEN "SystemExit"
        ELSE "instance"

\* Translator(...) is called in a process whose stdin is a terminal or not.
Construct ==
    /\ pc = "idle"
    /\ arg = <<>>
    /\ \E model \in {"gemma", "qwen"}, tp \in BOOLEAN,
          review_model_arg \in {"", "gemma", "qwen"},
          tags_resp \in TagsOutcomes, tty \in BOOLEAN :
        /\ arg' = [model |-> model, two_pass |-> tp, review_model |-> review_model_arg,
                   tags |-> tags_resp, isatty |-> tty]
        /\ ret' = translator_init(model, tp, review_model_arg, tags_resp, tty)
        /\ two_pass' = tp
        /\ raised' = (ret' # "instance")
    /\ pc' = "constructed"
    /\ UNCHANGED <<retryVars, cache, cache_hits, uuid_n, trVars, batchVars, calls>>

NextInit == Construct

SpecInit == Init /\ [][NextInit]_vars

\* ------------------------------------------------- parse_srt and write_srt

\* An SRT text is a sequence of tokens; "\n" and "\r" are the line breaks,
\* "0" and "7" are decimal digits, "²" is a digit character that is not a
\* decimal (str.isdigit() holds, int() rejects it), and "T" stands for a
\* time range such as "00:00:01,000 --> 00:00:02,000".
DecimalTokens == {"0", "7"}
DigitTokens == DecimalTokens \cup {"²"}

\* text.replace("\r\n", "\n").replace("\r", "\n")
RECURSIVE normalise_newlines(_)
normalise_newlines(s) ==
    IF s = <<>> THEN <<>>
    ELSE IF Head(s) = "\r" /\ Len(s) >= 2 /\ s[2] = "\n"
         THEN <<"\n">> \o normalise_newlines(Tail(Tail(s)))
    ELSE IF Head(s) = "\r" THEN <<"\n">> \o normalise_newlines(Tail(s))
    ELSE <<Head(s)>> \o normalise_newlines(Tail(s))

\* text.split("\n")
RECURSIVE split_lines(_)
split_lines(s) ==
    IF \E i \in 1..Len(s) : s[i] = "\n"
    THEN LET i == CHOOSE k \in 1..Len(s) : s[k] = "\n" /\ \A j \in 1..(k - 1) : s[j] # "\n"
         IN  <<SubSeq(s, 1, i - 1)>> \o split_lines(SubSeq(s, i + 1, Len(s)))
    ELSE <<s>>

\* "\n".join(lines)
RECURSIVE join_lines(_)
join_lines(ls) ==
    IF ls = <<>> THEN <<>>
    ELSE IF Len(ls) = 1 THEN ls[1]
    ELSE ls[1] \o <<"\n">> \o join_lines(Tail(ls))

\* str.isdigit()
isdigit(s) == s # <<>> /\ \A i \in 1..Len(s) : s[i] \in DigitTokens

\* int(s) for a string of digit characters: ValueError unless every one is
\* a decimal.
RECURSIVE decimal_value(_)
decimal_value(s) ==
    IF s = <<>> THEN 0
    ELSE 10 * decimal_value(SubSeq(s, 1, Len(s) - 1)) + (IF s[Len(s)] = "7" THEN 7 ELSE 0)

int(s) ==
    IF \A i \in 1..Len(s) : s[i] \in DecimalTokens
    THEN [exc |-> "none", val |-> decimal_value(s)]
    ELSE [exc |-> "ValueError", val |-> 0]

\* str(n) for a natural number
RECURSIVE str(_)
str(n) == IF n < 10 THEN <<ToString(n)>> ELSE str(n \div 10) \o <<ToString(n % 10)>>

\* TIME_RE.match(s): two time stamps around "-->", then anything.
TIME_RE_match(s) == s # <<>> /\ s[1] = "T"

SrtBlock(index, timecode, lines) == [index |-> index, timecode |-> timecode, lines |-> lines]

\* The first position from i on (0-based) whose line is blank, or n.
RECURSIVE next_blank(_, _)
next_blank(lines, i) ==
    IF i < Len(lines) /\ strip(At0(lines, i)) # <<>> THEN next_blank(lines, i + 1) ELSE i

\* The first position from i on (0-based) whose line is not blank, or n.
RECURSIVE skip_blank(_, _)
skip_blank(lines, i) ==
    IF i < Len(lines) /\ strip(At0(lines, i)) = <<>> THEN skip_blank(lines, i + 1) ELSE i

\* The loop of parse_srt from position i with the blocks collected so far:
\* the blocks, or the exception that int() raised.
RECURSIVE parse_loop(_, _, _)
parse_loop(lines, i0, blocks) ==
    LET n == Len(lines)
        i == skip_blank(lines, i0)
    IN  IF i >= n THEN [exc |-> "none", val |-> blocks]
        ELSE LET idx_line == strip(At0(lines, i))
             IN  IF ~isdigit(idx_line) THEN parse_loop(lines, i + 1, blocks)
                 ELSE IF int(idx_line).exc # "none"
                      THEN [exc |-> int(idx_line).exc, val |-> <<>>]
                 ELSE IF i + 1 >= n THEN [exc |-> "none", val |-> blocks]
                 ELSE LET timecode == strip(At0(lines, i + 1))
                      IN  IF ~TIME_RE_match(timecode) THEN parse_loop(lines, i + 2, blocks)
                          ELSE LET k == next_blank(lines, i + 2)
                                   text_lines == SubSeq(lines, i + 3, k)
                               IN  parse_loop(lines, k + 1,
                                       Append(blocks, SrtBlock(int(idx_line).val,
                                                               timecode, text_lines)))

parse_srt(s) == parse_loop(split_lines(normalise_newlines(s)), 0, <<>>)

\* rstrip() in its place: trailing blanks go as well.
rstrip_newlines_and_blanks(s) == rstrip(s)

\* rstrip("\n")
RECURSIVE rstrip_newlines(_)
rstrip_newlines(s) ==
    IF s # <<>> /\ s[Len(s)] = "\n" THEN rstrip_newlines(SubSeq(s, 1, Len(s) - 1)) ELSE s

RECURSIVE out_lines(_)
out_lines(blocks) ==
    IF blocks = <<>> THEN <<>>
    ELSE <<str(Head(blocks).index), Head(blocks).timecode>> \o Head(blocks).lines
         \o <<<<>>>> \o out_lines(Tail(blocks))

\* The text write_srt writes to the file.
write_srt(blocks) == rstrip_newlines(join_lines(out_lines(blocks))) \o <<"\n">>

\* Lines of input texts: blank, index-like, time-range-like, text.
SrtLines == {<<>>, <<" ">>, <<"7">>, <<"0", "7">>, <<" ", "T", "a">>, <<"a", " ">>,
             <<"²">>, <<"7", "\r">>}

SrtTexts == {join_lines(ls) : ls \in SeqsUpTo(SrtLines, MaxLines)}

\* parse_srt(text), then write_srt of its blocks, then parse_srt of what
\* was written.
ParseCall ==
    /\ pc = "idle"
    /\ arg = <<>>
    /\ \E s \in SrtTexts :
        /\ arg' = [text |-> s]
        /\ ret' = [parsed |-> parse_srt(s)]
    /\ pc' = IF ret'.parsed.exc = "none" THEN "parsed" ELSE "failed"
    /\ raised' = (ret'.parsed.exc # "none")
    /\ UNCHANGED <<retryVars, instVars, trVars, batchVars, calls>>

WriteCall ==
    /\ pc = "parsed"
    /\ ret' = [parsed |-> ret.parsed, written |-> write_srt(ret.parsed.val)]
    /\ pc' = "written"
    /\ UNCHANGED <<raised, retryVars, instVars, trVars, batchVars, calls, arg>>

ReparseCall ==
    /\ pc = "written"
    /\ ret' = [parsed |-> ret.parsed, written |-> ret.written,
               reparsed |-> parse_srt(ret.written)]
    /\ pc' = "reparsed"
    /\ UNCHANGED <<raised, retryVars, instVars, trVars, batchVars, calls, arg>>

NextSrt ==
    \/ ParseCall
    \/ WriteCall
    \/ ReparseCall

SpecSrt == Init /\ [][NextSrt]_vars

\* ------------------------------------- protect_tags and restore_tags alone

\* Texts with no, one or several tags; uuid4 keys do not occur in a text
\* written before they were drawn.
TagTexts == SeqsUpTo({"a", " ", "<i>", "</i>"}, MaxTagText)

\* protect_tags(text) on a process that drew n keys before.
ProtectCall ==
    /\ pc = "idle"
    /\ arg = <<>>
    /\ \E s \in TagTexts, n \in {0, 2} :
        LET p == protect_tags(s, n)
        IN  /\ arg' = [text |-> s]
            /\ ret' = [protected |-> p.protected, tags |-> p.tags]
            /\ uuid_n' = p.n
    /\ pc' = "protected"
    /\ UNCHANGED <<raised, retryVars, two_pass, cache, cache_hits, trVars, batchVars, calls>>

\* restore_tags(protected, tags)
RestoreCall ==
    /\ pc = "protected"
    /\ ret' = [protected |-> ret.protected, tags |-> ret.tags,
               restored |-> restore_tags(ret.protected, ret.tags)]
    /\ pc' = "restored"
    /\ UNCHANGED <<raised, retryVars, instVars, trVars, batchVars, calls, arg>>

NextTags ==
    \/ ProtectCall
    \/ RestoreCall

SpecTags == Init /\ [][NextTags]_vars

\* ------------------------------------------------ the document pipelines

\* SrtBlock.text()
block_text(b) == join_lines(b.lines)

\* The block numbered by its position, in place of the parsed block's index.
rebuilt_block_renumbered(block, i, translated_text) ==
    SrtBlock(i + 1, block.timecode, split_lines(translated_text))

\* The block both pipelines build for a parsed block (at 0-based position
\* i) and its translated text.
rebuilt_block(block, i, translated_text) ==
    SrtBlock(block.index, block.timecode, split_lines(translated_text))

\* The documents read: two blocks with text under equal indexes, nothing,
\* a block without text before one with text, and stray lines around a
\* block.
Documents ==
    {<<"0", "7", "\n", " ", "T", "a", "\n", "a", "\n", "b", " ", "\n", "\n",
       "7", "\n", "T", "\n", "<i>", "b", "\n">>,
     <<>>,
     <<"7", "\n", "T", "\n", "\n", "7", "0", "\n", "T", "\n", "a">>,
     <<"a", "\n", "7", "\n", "\n", "7", "\n", "T", " ", "\r", "\n", "b", "\r">>}

\* translate_srt: read_srt_file and parse_srt.
CliRead ==
    /\ pc = "idle"
    /\ arg = <<>>
    /\ \E s \in Documents :
        /\ arg' = [pipeline |-> "cli", text |-> s, blocks |-> parse_srt(s).val]
        /\ ret' = [translated_blocks |-> <<>>]
    /\ pc' = "cli_loop"
    /\ UNCHANGED <<raised, retryVars, instVars, trVars, batchVars, calls>>

\* The loop of translate_srt calls translate for the next block, with the
\* neighbouring blocks' texts as context.
CliTranslate ==
    /\ pc = "cli_loop"
    /\ LET i == Len(ret.translated_blocks)
           total == Len(arg.blocks)
       IN  /\ i < total
           /\ EnterTranslate("cli", block_text(At0(arg.blocks, i)),
                             IF i > 0 THEN block_text(At0(arg.blocks, i - 1)) ELSE <<>>,
                             IF i < total - 1 THEN block_text(At0(arg.blocks, i + 1)) ELSE <<>>)
    /\ UNCHANGED <<raised, two_pass, batchVars, calls, arg, ret>>

\* translate has returned to the loop: the translated block is appended.
CliAppend ==
    /\ pc = "t_ret"
    /\ t_caller = "cli"
    /\ LET i == Len(ret.translated_blocks)
       IN  ret' = [translated_blocks |->
                     Append(ret.translated_blocks,
                            rebuilt_block(At0(arg.blocks, i), i, t_result))]
    /\ PopTranslate
    /\ pc' = "cli_loop"
    /\ UNCHANGED <<raised, retryVars, instVars, batchVars, calls, arg>>

\* After the loop: write_srt(translated_blocks, output_path, "utf-8").
CliWrite ==
    /\ pc = "cli_loop"
    /\ Len(ret.translated_blocks) = Len(arg.blocks)
    /\ ret' = [translated_blocks |-> ret.translated_blocks,
               written |-> write_srt(ret.translated_blocks)]
    /\ pc' = "cli_done"
    /\ UNCHANGED <<raised, retryVars, instVars, trVars, batchVars, calls, arg>>

\* translate_worker: read_srt_file, parse_srt, then translate_batch called
\* with the callbacks; an exception ends the task with status "error" and
\* nothing is written.
WorkerRead ==
    /\ pc = "idle"
    /\ arg = <<>>
    /\ \E s \in Documents, m \in MaxCharsChoices :
        LET blocks == parse_srt(s).val
            t == [k \in 1..Len(blocks) |-> block_text(blocks[k])]
        IN  /\ arg' = [pipeline |-> "worker", text |-> s, blocks |-> blocks]
            /\ ret' = [translated_blocks |-> <<>>]
            /\ texts' = t
            /\ max_chars' = m
            /\ IF Binds(BatchParameters, WorkerPositional, WorkerKeywords)
               THEN /\ IF t = <<>>
                       THEN retval' = <<>> /\ pc' = "done" /\ UNCHANGED chunks
                       ELSE chunks' = make_chunks(t, m) /\ pc' = "next" /\ UNCHANGED retval
                    /\ UNCHANGED raised
               ELSE /\ pc' = "task_error"
                    /\ raised' = TRUE
                    /\ UNCHANGED <<chunks, retval>>
    /\ UNCHANGED <<retryVars, instVars, trVars, chunk_idx, protected_list,
                   tags_list, b_resp, translated_list, seg_idx, results, reviewed,
                   mode, fb_calls, res_accepted, calls>>

NextPipelines ==
    \/ CliRead
    \/ CliTranslate
    \/ PostRespond
    \/ PostRaise
    \/ PostExhausted
    \/ TranslateAfterPost
    \/ TranslateAfterRetry
    \/ CliAppend
    \/ CliWrite
    \/ WorkerRead

SpecPipelines == Init /\ [][NextPipelines]_vars

\* --------------------------------------------------------- read_srt_file

\* A file is a sequence of bytes, written in hexadecimal.  EF BB BF is the
\* UTF-8 byte-order mark; BB, BF and 98 are UTF-8 continuation bytes; FF
\* occurs in no UTF-8 text; cp1251 has no character for 98.
Bytes == {"41", "EF", "BB", "BF", "FF", "98"}

Continuation == {"BB", "BF", "98"}

BOM == <<"EF", "BB", "BF">>

\* raw.startswith(b"\xef\xbb\xbf")
startswith_bom(raw) == Len(raw) >= 3 /\ SubSeq(raw, 1, 3) = BOM

\* bytes.decode("utf-8"): the characters, or UnicodeDecodeError.
RECURSIVE decode_utf8(_)
decode_utf8(raw) ==
    IF raw = <<>> THEN [ok |-> TRUE, text |-> <<>>]
    ELSE IF Head(raw) = "41"
    THEN LET rest == decode_utf8(Tail(raw))
         IN  [ok |-> rest.ok, text |-> <<"A">> \o rest.text]
    ELSE IF Head(raw) = "EF" /\ Len(raw) >= 3 /\ raw[2] \in Continuation
                             /\ raw[3] \in Continuation
    THEN LET rest == decode_utf8(SubSeq(raw, 4, Len(raw)))
         IN  [ok |-> rest.ok, text |-> <<"U+" \o raw[1] \o raw[2] \o raw[3]>> \o rest.text]
    ELSE [ok |-> FALSE, text |-> <<>>]

\* bytes.decode("utf-8-sig"): a leading mark is dropped.
decode_utf8_sig(raw) ==
    IF startswith_bom(raw) THEN decode_utf8(SubSeq(raw, 4, Len(raw))) ELSE decode_utf8(raw)

\* bytes.decode("utf-8", errors="replace"): each undecodable run gives
\* U+FFFD.
RECURSIVE decode_utf8_replace(_)
decode_utf8_replace(raw) ==
    IF raw = <<>> THEN <<>>
    ELSE IF Head(raw) = "41" THEN <<"A">> \o decode_utf8_replace(Tail(raw))
    ELSE IF Head(raw) = "EF" /\ Len(raw) >= 3 /\ raw[2] \in Continuation
                             /\ raw[3] \in Continuation
    THEN <<"U+" \o raw[1] \o raw[2] \o raw[3]>> \o decode_utf8_replace(SubSeq(raw, 4, Len(raw)))
    ELSE IF Head(raw) = "EF" /\ Len(raw) >= 2 /\ raw[2] \in Continuation
    THEN <<"U+FFFD">> \o decode_utf8_replace(SubSeq(raw, 3, Len(raw)))
    ELSE <<"U+FFFD">> \o decode_utf8_replace(Tail(raw))

\* The single-byte code pages: the character of a byte, "" where the code
\* page has none.
cp1251_char(b) ==
    CASE b = "41" -> "A" [] b = "EF" -> "U+043F" [] b = "BB" -> "U+00BB"
      [] b = "BF" -> "U+0457" [] b = "FF" -> "U+044F" [] OTHER -> ""

latin1_char(b) == IF b = "41" THEN "A" ELSE "U+00" \o b

iso8859_2_char(b) ==
    CASE b = "41" -> "A" [] b = "EF" -> "U+010F" [] b = "BB" -> "U+0165"
      [] b = "BF" -> "U+017C" [] b = "FF" -> "U+02D9" [] OTHER -> "U+00" \o b

\* shift_jis: ASCII, half-width katakana (BB, BF), and the lead byte 98
\* with a trail byte; EF leads into an unassigned row, FF is no lead byte.
RECURSIVE decode_shift_jis(_)
decode_shift_jis(raw) ==
    IF raw = <<>> THEN [ok |-> TRUE, text |-> <<>>]
    ELSE IF Head(raw) \in {"41", "BB", "BF"}
    THEN LET rest == decode_shift_jis(Tail(raw))
         IN  [ok |-> rest.ok,
              text |-> <<IF Head(raw) = "41" THEN "A" ELSE "U+FF" \o Head(raw)>> \o rest.text]
    ELSE IF Head(raw) = "98" /\ Len(raw) >= 2 /\ raw[2] \in {"41", "BB", "BF"}
    THEN LET rest == decode_shift_jis(SubSeq(raw, 3, Len(raw)))
         IN  [ok |-> rest.ok, text |-> <<"SJIS+98" \o raw[2]>> \o rest.text]
    ELSE [ok |-> FALSE, text |-> <<>>]

\* bytes.decode(enc): ok with the text, UnicodeDecodeError ("decode"), or
\* LookupError ("lookup") for a name Python has no codec for.
decode(raw, enc) ==
    CASE enc \in {"utf-8"} ->
            [err |-> IF decode_utf8(raw).ok THEN "none" ELSE "decode",
             text |-> decode_utf8(raw).text]
      [] enc = "utf-8-sig" ->
            [err |-> IF decode_utf8_sig(raw).ok THEN "none" ELSE "decode",
             text |-> decode_utf8_sig(raw).text]
      [] enc \in {"cp1251", "windows-1251"} ->
            [err |-> IF \A i \in 1..Len(raw) : cp1251_char(raw[i]) # "" THEN "none" ELSE "decode",
             text |-> [i \in 1..Len(raw) |-> cp1251_char(raw[i])]]
      [] enc = "latin-1" ->
            [err |-> "none", text |-> [i \in 1..Len(raw) |-> latin1_char(raw[i])]]
      [] enc = "iso-8859-2" ->
            [err |-> "none", text |-> [i \in 1..Len(raw) |-> iso8859_2_char(raw[i])]]
      [] enc = "shift_jis" ->
            [err |-> IF decode_shift_jis(raw).ok THEN "none" ELSE "decode",
             text |-> decode_shift_jis(raw).text]
      [] enc = "ascii" ->
            [err |-> IF \A i \in 1..Len(raw) : raw[i] = "41" THEN "none" ELSE "decode",
             text |-> [i \in 1..Len(raw) |-> "A"]]
      [] OTHER -> [err |-> "lookup", text |-> <<>>]

\* The fallback list of read_srt_file, in its order.
FallbackEncodings == <<"cp1251", "latin-1", "iso-8859-2", "shift_jis">>

\* for enc in (...): the first that decodes, else the lossy decoding.
RECURSIVE fallback_chain(_, _)
fallback_chain(raw, encs) ==
    IF encs = <<>>
    THEN [exc |-> "none", text |-> decode_utf8_replace(raw), enc |-> "utf-8", by |-> "lossy"]
    ELSE IF decode(raw, Head(encs)).err = "none"
    THEN [exc |-> "none", text |-> decode(raw, Head(encs)).text, enc |-> Head(encs),
          by |-> "list"]
    ELSE fallback_chain(raw, Tail(encs))

\* What the detector does for a file: the chardet module is not installed
\* ("absent"), or detect() reports no encoding ("none") or an encoding
\* name.
Detectors == {"absent", "none", "windows-1251", "ascii", "x-unknown"}

\* read_srt_file: the text, the reported encoding and the strategy that
\* gave them, or the exception that leaves the call.
read_srt_file(raw, detector) ==
    IF startswith_bom(raw)
    THEN IF decode(raw, "utf-8-sig").err = "none"
         THEN [exc |-> "none", text |-> decode(raw, "utf-8-sig").text,
               enc |-> "utf-8-sig", by |-> "bom"]
         ELSE [exc |-> "UnicodeDecodeError", text |-> <<>>, enc |-> "", by |-> "bom"]
    ELSE IF decode(raw, "utf-8").err = "none"
    THEN [exc |-> "none", text |-> decode(raw, "utf-8").text, enc |-> "utf-8", by |-> "utf-8"]
    ELSE IF detector \notin {"absent", "none"} /\ decode(raw, detector).err = "none"
    THEN [exc |-> "none", text |-> decode(raw, detector).text, enc |-> detector,
          by |-> "detector"]
    ELSE fallback_chain(raw, FallbackEncodings)

\* read_srt_file(path) for a file's bytes and a detector.
ReadCall ==
    /\ pc = "idle"
    /\ arg = <<>>
    /\ \E raw \in SeqsUpTo(Bytes, MaxBytes), d \in Detectors :
        /\ arg' = [raw |-> raw, detector |-> d]
        /\ ret' = read_srt_file(raw, d)
    /\ pc' = "read"
    /\ raised' = (ret'.exc # "none")
    /\ UNCHANGED <<retryVars, instVars, trVars, batchVars, calls>>

NextRead == ReadCall

SpecRead == Init /\ [][NextRead]_vars

\* ------------------------------------------- worker tasks side by side

\* ThreadPoolExecutor(max_workers=3): the tasks that run at the same time.
MaxWorkers == 3

\* One Translator for the whole process, handed to every task.
new_translator_shared(heap, t) ==
    IF heap = <<>>
    THEN [heap |-> <<[creator |-> t, users |-> {}, cache |-> <<>>, cache_hits |-> 0]>>,
          id |-> 1]
    ELSE [heap |-> heap, id |-> 1]

\* Translator(...) evaluated by task t: a new object with its own empty
\* _cache and _cache_hits = 0; heap is the sequence of the Translator
\* objects made so far, id the new object's place in it.
new_translator(heap, t) ==
    [heap |-> Append(heap, [creator |-> t, users |-> {}, cache |-> <<>>, cache_hits |-> 0]),
     id |-> Len(heap) + 1]

\* arg maps each submitted task to its position in translate_worker and to
\* the object its local variable translator holds (0: none); ret is the
\* heap.
Submit ==
    /\ pc = "idle"
    /\ arg = <<>>
    /\ \E n \in 1..MaxWorkers :
        arg' = [t \in 1..n |-> [at |-> "queued", translator |-> 0]]
    /\ ret' = <<>>
    /\ pc' = "serving"
    /\ UNCHANGED <<raised, retryVars, instVars, trVars, batchVars, calls>>

\* A pool thread starts translate_worker for task t: status "running".
TaskStart(t) ==
    /\ arg[t].at = "queued"
    /\ arg' = [arg EXCEPT ![t].at = "running"]
    /\ UNCHANGED ret

\* read_srt_file and parse_srt.
TaskRead(t) ==
    /\ arg[t].at = "running"
    /\ arg' = [arg EXCEPT ![t].at = "parsed"]
    /\ UNCHANGED ret

\* translator = Translator(...): the object, or the constructor's
\* exception, which ends the task with status "error".
TaskConstruct(t) ==
    /\ arg[t].at = "parsed"
    /\ \/ LET made == new_translator(ret, t)
          IN  /\ ret' = made.heap
              /\ arg' = [arg EXCEPT ![t].at = "constructed", ![t].translator = made.id]
       \/ /\ arg' = [arg EXCEPT ![t].at = "error"]
          /\ UNCHANGED ret

\* translator.translate_batch(texts, max_chars=..., on_progress=...,
\* on_phase=...): the task uses its translator; the call does not bind and
\* the task ends with status "error".
TaskCallBatch(t) ==
    /\ arg[t].at = "constructed"
    /\ ret' = [ret EXCEPT ![arg[t].translator].users = @ \cup {t}]
    /\ arg' = [arg EXCEPT ![t].at =
                 IF Binds(BatchParameters, WorkerPositional, WorkerKeywords)
                 THEN "translating" ELSE "error"]

TaskStep ==
    /\ pc = "serving"
    /\ \E t \in DOMAIN arg :
        \/ TaskStart(t)
        \/ TaskRead(t)
        \/ TaskConstruct(t)
        \/ TaskCallBatch(t)
    /\ UNCHANGED <<pc, raised, retryVars, instVars, trVars, batchVars, calls>>

NextTasks ==
    \/ Submit
    \/ TaskStep

SpecTasks == Init /\ [][NextTasks]_vars

\* --------------------------------------------- video_utils: subtitle tracks

TEXT_CODECS == {"subrip", "ass", "ssa", "mov_text", "webvtt", "text"}

IMAGE_CODECS == {"hdmv_pgs_subtitle", "dvd_subtitle", "dvb_subtitle", "pgssub"}

SubtitleTrack(index, sub_index, codec_name) ==
    [index |-> index, sub_index |-> sub_index, codec_name |-> codec_name,
     is_text |-> codec_name \in TEXT_CODECS, is_image |-> codec_name \in IMAGE_CODECS]

\* The loop numbering every stream, subtitle or not.
RECURSIVE probe_loop_counts_all(_, _)
probe_loop_counts_all(streams, sub_counter) ==
    IF streams = <<>> THEN <<>>
    ELSE IF Head(streams).codec_type # "subtitle"
    THEN probe_loop_counts_all(Tail(streams), sub_counter + 1)
    ELSE <<SubtitleTrack(Head(streams).index, sub_counter, Head(streams).codec_name)>>
         \o probe_loop_counts_all(Tail(streams), sub_counter + 1)

\* The loop of probe_subtitle_tracks over the streams ffprobe listed, from
\* the running value of sub_counter.
RECURSIVE probe_loop(_, _)
probe_loop(streams, sub_counter) ==
    IF streams = <<>> THEN <<>>
    ELSE IF Head(streams).codec_type # "subtitle"
    THEN probe_loop(Tail(streams), sub_counter)
    ELSE <<SubtitleTrack(Head(streams).index, sub_counter, Head(streams).codec_name)>>
         \o probe_loop(Tail(streams), sub_counter + 1)

probe_subtitle_tracks(streams) == probe_loop(streams, 0)

\* The kinds of stream in a container.
StreamKinds ==
    {[codec_type |-> "video", codec_name |-> "h264"],
     [codec_type |-> "audio", codec_name |-> "aac"],
     [codec_type |-> "subtitle", codec_name |-> "subrip"],
     [codec_type |-> "subtitle", codec_name |-> "hdmv_pgs_subtitle"]}

\* ffprobe lists a container's streams in order, numbered from 0.
Containers ==
    {[i \in 1..Len(ks) |-> [index |-> i - 1, codec_type |-> ks[i].codec_type,
                            codec_name |-> ks[i].codec_name]] :
        ks \in SeqsUpTo(StreamKinds, MaxStreams)}

\* The stream ffmpeg takes for "-map 0:s:k": the (k+1)-th stream of the
\* input whose type is subtitle; none makes ffmpeg fail.
RECURSIVE ffmpeg_map_s(_, _)
ffmpeg_map_s(streams, k) ==
    IF streams = <<>> THEN [found |-> FALSE, index |-> 0]
    ELSE IF Head(streams).codec_type = "subtitle"
    THEN IF k = 0 THEN [found |-> TRUE, index |-> Head(streams).index]
         ELSE ffmpeg_map_s(Tail(streams), k - 1)
    ELSE ffmpeg_map_s(Tail(streams), k)

\* probe_subtitle_tracks(video_path)
ProbeCall ==
    /\ pc = "idle"
    /\ arg = <<>>
    /\ \E streams \in Containers :
        /\ arg' = [streams |-> streams]
        /\ ret' = [tracks |-> probe_subtitle_tracks(streams)]
    /\ pc' = "probed"
    /\ UNCHANGED <<raised, retryVars, instVars, trVars, batchVars, calls>>

\* extract_subtitle_track(video_path, track.sub_index, output_path) for one
\* of the tracks probed: ffmpeg runs with -map 0:s:<sub_index>.
ExtractCall ==
    /\ pc = "probed"
    /\ \E j \in 1..Len(ret.tracks) :
        ret' = [tracks |-> ret.tracks, chosen |-> j,
                mapped |-> ffmpeg_map_s(arg.streams, ret.tracks[j].sub_index)]
    /\ pc' = "extracted"
    /\ UNCHANGED <<raised, retryVars, instVars, trVars, batchVars, calls, arg>>

NextProbe ==
    \/ ProbeCall
    \/ ExtractCall

SpecProbe == Init /\ [][NextProbe]_vars

\* ------------------------------- translate called with longer marked-up texts

\* Texts of 11 characters with no, one and two tags, and a short text with
\* two tags.
MarkupTexts ==
    {Rep("a", 11), <<"<i>">> \o Rep("a", 8), <<"<i>">> \o Rep("a", 4) \o <<"</i>">>,
     <<"<i>", "b", "</i>">>}

\* What the backend may make of the placeholders of a reply s: each one is
\* kept, altered or left out.
Degraded(s, fate) ==
    LET altered == [i \in 1..Len(s) |->
                      IF s[i] \in Placeholders /\ fate[s[i]] = "mangle"
                      THEN Mangled(s[i]) ELSE s[i]]
        Stays(t) == ~(t \in Placeholders /\ fate[t] = "omit")
    IN  SelectSeq(altered, Stays)

LossyBodies(p) ==
    LET held == {p[i] : i \in 1..Len(p)} \cap Placeholders
    IN  {Degraded(Tr(p), fate) : fate \in [held -> {"keep", "mangle", "omit"}]}

\* requests.post returns a 200 reply whose "response" has lost some of the
\* placeholders.
PostRespondLossy ==
    /\ pc = "post"
    /\ attempt <= attempts
    /\ payload.kind = "translate"
    /\ \E b \in LossyBodies(payload.segs[1]) :
        /\ outcomes' = Append(outcomes, Response(200, TRUE, b))
        /\ resp' = Response(200, TRUE, b)
        /\ pc' = "post_ret"
    /\ UNCHANGED <<raised, caller, payload, attempts, backoff, attempt, sleeps>>
    /\ UNCHANGED nonRetryVars

\* A caller calls translate with one of them.
CallTranslateMarkup ==
    /\ pc = "idle"
    /\ Len(calls) < MaxCalls
    /\ \E t \in MarkupTexts, p \in Contexts, n \in Contexts :
        EnterTranslate("top", t, p, n)
    /\ UNCHANGED <<raised, two_pass, batchVars, calls, arg, ret>>

NextTranslateMarkup ==
    \/ CallTranslateMarkup
    \/ PostRespond
    \/ PostRaise
    \/ PostExhausted
    \/ TranslateAfterPost
    \/ TranslateAfterRetry
    \/ TopReturn

SpecTranslateMarkup == Init /\ [][NextTranslateMarkup]_vars

NextRestore ==
    \/ CallTranslateMarkup
    \/ PostRespondLossy
    \/ PostRaise
    \/ PostExhausted
    \/ TranslateAfterPost
    \/ TranslateAfterRetry
    \/ TopReturn

SpecRestore == Init /\ [][NextRestore]_vars

\* --------------------------- the pipeline with replies of several lines

\* "response" strings that hold a blank line, and a blank line followed by
\* a digits-only line and a time-range line.
LineBodies(p) ==
    {Tr(p) \o <<"\n", "\n">> \o Tr(p),
     Tr(p) \o <<"\n", "\n", "7", "\n", "T", "\n">> \o Tr(p)}

\* requests.post returns a 200 reply of several lines.
PostRespondLines ==
    /\ pc = "post"
    /\ attempt <= attempts
    /\ payload.kind = "translate"
    /\ \E b \in LineBodies(payload.segs[1]) :
        /\ outcomes' = Append(outcomes, Response(200, TRUE, b))
        /\ resp' = Response(200, TRUE, b)
        /\ pc' = "post_ret"
    /\ UNCHANGED <<raised, caller, payload, attempts, backoff, attempt, sleeps>>
    /\ UNCHANGED nonRetryVars

NextRewrite ==
    \/ CliRead
    \/ CliTranslate
    \/ PostRespondLines
    \/ PostRespond
    \/ PostRaise
    \/ PostExhausted
    \/ TranslateAfterPost
    \/ TranslateAfterRetry
    \/ CliAppend
    \/ CliWrite

SpecRewrite == Init /\ [][NextRewrite]_vars

\* ------------------------------------------- the web task registry (app.py)

\* arg holds the process's surroundings: FILE_TTL, TASK_TTL, whether stdin
\* is a terminal, the clock, and the files of UPLOAD_DIR with their
\* modification times. ret holds the registry tasks, every worker's
\* position (at) and pending writes (todo), the cleanup thread's position
\* and locals, and what the clients were answered.

TaskIds == {"t1"}

TTLChoices == {0, 1}

\* None in the place of a path
Unset == <<>>

InputPath(id) == <<id, "input">>

OutputPath(id) == <<id, "output">>

\* The entry /translate stores for a new task.
new_task(now) ==
    [status |-> "starting", created_at |-> now, completed_at |-> 0,
     output_file |-> Unset, error |-> ""]

\* path.write_text / file.save at time now
touch(files, path, now) ==
    [q \in DOMAIN files \cup {path} |-> IF q = path THEN now ELSE files[q]]

\* p.unlink() for every p of paths that exists
unlink_all(files, paths) == [q \in DOMAIN files \ paths |-> files[q]]

\* tasks.pop(tid, None) for every tid of ids
pop_all(tasks_, ids) == [k \in DOMAIN tasks_ \ ids |-> tasks_[k]]

\* The statements of translate_worker after translate_batch has returned,
\* in their order: the output is written, then the task's output_file,
\* completed_at and status are set, then save_dir is read.
DoneWrites == <<"current", "write_srt", "output_file", "completed_at", "status", "save_dir">>

\* The statements of the except branch, in their order.
ErrorWrites == <<"status", "error", "completed_at">>

\* An except branch that reports the task as done.
task_write_marks_done(t, w, branch, id, now) ==
    CASE w = "output_file" -> [t EXCEPT !.output_file = OutputPath(id)]
      [] w = "completed_at" -> [t EXCEPT !.completed_at = now]
      [] w = "status" -> [t EXCEPT !.status = "done"]
      [] w = "error" -> [t EXCEPT !.error = "exception"]
      [] OTHER -> t

\* tasks[task_id][w] = ... in the try block's tail ("done") or in the
\* except branch ("handler").
task_write(t, w, branch, id, now) ==
    CASE w = "output_file" -> [t EXCEPT !.output_file = OutputPath(id)]
      [] w = "completed_at" -> [t EXCEPT !.completed_at = now]
      [] w = "status" ->
            [t EXCEPT !.status = IF branch = "done" THEN "done" ELSE "error"]
      [] w = "error" -> [t EXCEPT !.error = "exception"]
      [] OTHER -> t

\* The files cleanup_worker removes in its first loop.
old_files(files, now, ttl) == {q \in DOMAIN files : now - files[q] > ttl}

\* if completed and (now - completed > TASK_TTL); completed_at is 0 until
\* it is set (t.get gives None, which is as false as 0)
expired(t, now, ttl) == t.completed_at # 0 /\ now - t.completed_at > ttl

\* elif not completed and (now - created > TASK_TTL * 2)
stale(t, now, ttl) == t.completed_at = 0 /\ now - t.created_at > ttl * 2

\* The server starts: its settings are read from the environment.
RegServe ==
    /\ pc = "idle"
    /\ arg = <<>>
    /\ \E f \in TTLChoices, t \in TTLChoices, tty \in BOOLEAN :
        arg' = [FILE_TTL |-> f, TASK_TTL |-> t, isatty |-> tty, now |-> 1,
                files |-> <<>>]
    /\ ret' = [tasks |-> <<>>,
               at |-> [id \in TaskIds |-> "none"],
               todo |-> [id \in TaskIds |-> <<>>],
               cleanup |-> [at |-> "files", to_remove |-> {}, now |-> 1],
               seen |-> [id \in TaskIds |-> <<>>],
               download |-> [id \in TaskIds |-> "none"]]
    /\ pc' = "registry"

\* /translate: the upload is saved, the task registered with status
\* "starting" and translate_worker submitted to the pool.
Upload(id) ==
    /\ ret.at[id] = "none"
    /\ arg' = [arg EXCEPT !.files = touch(@, InputPath(id), arg.now)]
    /\ ret' = [ret EXCEPT !.tasks = [k \in DOMAIN @ \cup {id} |->
                                       IF k = id THEN new_task(arg.now) ELSE @[k]],
                          !.at[id] = "submitted"]

\* An exception inside the try block: the except branch runs.
ToHandler(id) == [ret EXCEPT !.at[id] = "handler", !.todo[id] = ErrorWrites]

\* translate_worker starts: tasks[task_id]["status"] = "running".
WorkerBegin(id) ==
    /\ ret.at[id] = "submitted"
    /\ ret' = IF id \in DOMAIN ret.tasks
              THEN [ret EXCEPT !.tasks[id].status = "running", !.at[id] = "read"]
              ELSE ToHandler(id)
    /\ UNCHANGED arg

\* read_srt_file and parse_srt, then tasks[task_id]["total"] = len(blocks):
\* the file may be gone or undecodable, the task removed.
WorkerReadFile(id) ==
    /\ ret.at[id] = "read"
    /\ \E decodes \in BOOLEAN :
        ret' = IF InputPath(id) \in DOMAIN arg.files /\ decodes
                  /\ id \in DOMAIN ret.tasks
               THEN [ret EXCEPT !.at[id] = "construct"]
               ELSE ToHandler(id)
    /\ UNCHANGED arg

\* translator = Translator(...): sys.exit raises SystemExit, which except
\* Exception does not catch: the finally clause logs and the worker ends.
WorkerNewTranslator(id) ==
    /\ ret.at[id] = "construct"
    /\ \E tags_resp \in TagsOutcomes :
        LET outcome == translator_init("gemma", FALSE, "", tags_resp, arg.isatty)
        IN  ret' = CASE outcome = "instance" -> [ret EXCEPT !.at[id] = "call"]
                     [] outcome = "SystemExit" -> [ret EXCEPT !.at[id] = "ended"]
                     [] OTHER -> ToHandler(id)
    /\ UNCHANGED arg

\* translator.translate_batch(texts, max_chars=..., on_progress=...,
\* on_phase=...)
WorkerBatchCall(id) ==
    /\ ret.at[id] = "call"
    /\ ret' = IF Binds(BatchParameters, WorkerPositional, WorkerKeywords)
              THEN [ret EXCEPT !.at[id] = "done", !.todo[id] = DoneWrites]
              ELSE ToHandler(id)
    /\ UNCHANGED arg

\* The next statement of the try block's tail or of the except branch. An
\* access to a task that was removed raises KeyError: in the try block the
\* except branch runs, in the except branch the worker ends.
WorkerWrite(id) ==
    /\ ret.at[id] \in {"done", "handler"}
    /\ LET w == Head(ret.todo[id])
           rest == Tail(ret.todo[id])
           after == IF rest = <<>> THEN "ended" ELSE ret.at[id]
       IN  IF w = "write_srt"
           THEN /\ arg' = [arg EXCEPT !.files = touch(@, OutputPath(id), arg.now)]
                /\ ret' = [ret EXCEPT !.todo[id] = rest, !.at[id] = after]
           ELSE /\ UNCHANGED arg
                /\ ret' = IF id \in DOMAIN ret.tasks
                          THEN [ret EXCEPT
                                  !.tasks[id] = task_write(@, w, ret.at[id], id, arg.now),
                                  !.todo[id] = rest, !.at[id] = after]
                          ELSE IF ret.at[id] = "done" THEN ToHandler(id)
                          ELSE [ret EXCEPT !.todo[id] = <<>>, !.at[id] = "ended"]

\* cleanup_worker wakes: now = time.time(), and the old files are removed.
CleanupFiles ==
    /\ ret.cleanup.at = "files"
    /\ arg' = [arg EXCEPT !.files = unlink_all(@, old_files(@, arg.now, arg.FILE_TTL))]
    /\ ret' = [ret EXCEPT !.cleanup = [at |-> "tasks", to_remove |-> {}, now |-> arg.now]]

\* The loop over the tasks: the output of an expired task is removed, the
\* expired and the stale tasks are noted in to_remove.
CleanupTasks ==
    /\ ret.cleanup.at = "tasks"
    /\ LET now == ret.cleanup.now
           gone == {id \in DOMAIN ret.tasks : expired(ret.tasks[id], now, arg.TASK_TTL)}
           old == {id \in DOMAIN ret.tasks : stale(ret.tasks[id], now, arg.TASK_TTL)}
           outs == {ret.tasks[id].output_file : id \in gone} \ {Unset}
       IN  /\ arg' = [arg EXCEPT !.files = unlink_all(@, outs)]
           /\ ret' = [ret EXCEPT !.cleanup.at = "pop",
                                 !.cleanup.to_remove = gone \cup old]

\* for tid in to_remove: tasks.pop(tid, None); then the thread sleeps.
CleanupPop ==
    /\ ret.cleanup.at = "pop"
    /\ ret' = [ret EXCEPT !.tasks = pop_all(@, ret.cleanup.to_remove),
                          !.cleanup.at = "files",
                          !.cleanup.to_remove = {}]
    /\ UNCHANGED arg

\* /progress/<task_id>: the client is shown the task's status.
ProgressPoll(id) ==
    /\ id \in DOMAIN ret.tasks
    /\ LET st == ret.tasks[id].status
           sofar == ret.seen[id]
       IN  /\ (IF sofar = <<>> THEN TRUE ELSE sofar[Len(sofar)] # st)
           /\ ret' = [ret EXCEPT !.seen[id] = Append(sofar, st)]
    /\ UNCHANGED arg

\* /download/<task_id>: 404, 400, or send_file of the task's output_file.
DownloadRequest(id) ==
    /\ ret.at[id] # "none"
    /\ LET answer ==
             IF id \notin DOMAIN ret.tasks THEN "404"
             ELSE IF ret.tasks[id].status # "done" THEN "400"
             ELSE IF ret.tasks[id].output_file \in DOMAIN arg.files THEN "file"
             ELSE "no file"
       IN  /\ ret.download[id] # answer
           /\ ret' = [ret EXCEPT !.download[id] = answer]
    /\ UNCHANGED arg

\* Time passes.
Tick ==
    /\ arg.now < MaxClock
    /\ arg' = [arg EXCEPT !.now = @ + 1]
    /\ UNCHANGED ret

WorkerStep ==
    /\ pc = "registry"
    /\ \E id \in TaskIds :
        \/ WorkerBegin(id)
        \/ WorkerReadFile(id)
        \/ WorkerNewTranslator(id)
        \/ WorkerBatchCall(id)
        \/ WorkerWrite(id)
    /\ UNCHANGED <<pc, raised, retryVars, instVars, trVars, batchVars, calls>>

CleanupStep ==
    /\ pc = "registry"
    /\ (CleanupFiles \/ CleanupTasks \/ CleanupPop)
    /\ UNCHANGED <<pc, raised, retryVars, instVars, trVars, batchVars, calls>>

RequestStep ==
    /\ pc = "registry"
    /\ \E id \in TaskIds : Upload(id) \/ ProgressPoll(id) \/ DownloadRequest(id)
    /\ UNCHANGED <<pc, raised, retryVars, instVars, trVars, batchVars, calls>>

ClockStep ==
    /\ pc = "registry"
    /\ Tick
    /\ UNCHANGED <<pc, raised, retryVars, instVars, trVars, batchVars, calls>>

RegStart ==
    /\ RegServe
    /\ UNCHANGED <<raised, retryVars, instVars, trVars, batchVars, calls>>

NextRegistry ==
    \/ RegStart
    \/ WorkerStep
    \/ CleanupStep
    \/ RequestStep
    \/ ClockStep

SpecRegistry == Init /\ [][NextRegistry]_vars

\* Every pool thread that has work runs on.
SpecRegistryFair == SpecRegistry /\ WF_vars(WorkerStep)

\* ------------------------------------ parse_srt's main loop, step by step

\* An iteration that does not move past a line that is no index.
parse_step_stuck(lines, i0, blocks) ==
    LET n == Len(lines)
        i == skip_blank(lines, i0)
    IN  IF i >= n THEN [op |-> "break", i |-> i, blocks |-> blocks]
        ELSE [op |-> "continue", i |-> i0, blocks |-> blocks]

\* One iteration of "while i < n" entered at cursor i0 (0-based): the
\* cursor and the blocks after it, and how it ends (continue, break, or
\* the exception of int()); from and to delimit the lines of the block it
\* appended, if any.
parse_step(lines, i0, blocks) ==
    LET n == Len(lines)
        i == skip_blank(lines, i0)
    IN  IF i >= n THEN [op |-> "break", i |-> i, blocks |-> blocks]
        ELSE LET idx_line == strip(At0(lines, i))
             IN  IF ~isdigit(idx_line)
                 THEN [op |-> "continue", i |-> i + 1, blocks |-> blocks]
                 ELSE IF int(idx_line).exc # "none"
                 THEN [op |-> int(idx_line).exc, i |-> i, blocks |-> blocks]
                 ELSE IF i + 1 >= n
                 THEN [op |-> "break", i |-> i + 1, blocks |-> blocks]
                 ELSE LET timecode == strip(At0(lines, i + 1))
                      IN  IF ~TIME_RE_match(timecode)
                          THEN [op |-> "continue", i |-> i + 2, blocks |-> blocks]
                          ELSE LET k == next_blank(lines, i + 2)
                               IN  [op |-> "continue", i |-> k + 1,
                                    blocks |-> Append(blocks,
                                        SrtBlock(int(idx_line).val, timecode,
                                                 SubSeq(lines, i + 3, k))),
                                    from |-> i, to |-> k]

\* The kinds of line the loop tells apart: blank, index, time-range, text,
\* a digit that is no decimal.
LoopLines == {<<>>, <<" ">>, <<"7">>, <<"T">>, <<"a">>, <<"²">>}

\* parse_srt(text) up to its loop: arg holds the text and its lines, ret
\* the cursor i, the blocks, for every block the lines it was made of, and
\* the number of iterations made.
LoopEnter ==
    /\ pc = "idle"
    /\ arg = <<>>
    /\ \E ls \in SeqsUpTo(LoopLines, MaxLines) :
        arg' = [text |-> join_lines(ls),
                lines |-> split_lines(normalise_newlines(join_lines(ls)))]
    /\ ret' = [i |-> 0, blocks |-> <<>>, spans |-> <<>>, iterations |-> 0]
    /\ pc' = "parsing"
    /\ UNCHANGED <<raised, retryVars, instVars, trVars, batchVars, calls>>

\* The test of "while i < n" and, when it holds, one iteration.
LoopIterate ==
    /\ pc = "parsing"
    /\ IF ret.i < Len(arg.lines)
       THEN LET step == parse_step(arg.lines, ret.i, ret.blocks)
            IN  /\ ret' = [i |-> step.i, blocks |-> step.blocks,
                           iterations |-> ret.iterations + 1,
                           spans |-> IF "from" \in DOMAIN step
                                     THEN Append(ret.spans, <<step.from, step.to>>)
                                     ELSE ret.spans]
                /\ pc' = CASE step.op = "continue" -> "parsing"
                           [] step.op = "break" -> "parse_done"
                           [] OTHER -> "failed"
                /\ raised' = (step.op \notin {"continue", "break"})
       ELSE /\ pc' = "parse_done"
            /\ UNCHANGED <<ret, raised>>
    /\ UNCHANGED <<retryVars, instVars, trVars, batchVars, calls, arg>>

NextParseLoop ==
    \/ LoopEnter
    \/ LoopIterate

SpecParseLoop == Init /\ [][NextParseLoop]_vars

\* ================================================================ claims

RECURSIVE ConcatChunks(_)
ConcatChunks(cs) == IF cs = <<>> THEN <<>> ELSE cs[1].segs \o ConcatChunks(Tail(cs))

RECURSIVE TotalChars(_)
TotalChars(segs) == IF segs = <<>> THEN 0 ELSE len(Head(segs)) + TotalChars(Tail(segs))

\* C6: the chunks make_chunks produces are non-empty, their sub-sequences
\* concatenated in order are the input sequence, and each chunk's start index
\* is the number of segments in the chunks before it.
C6_ChunksPartition ==
    pc = "chunked" =>
        /\ \A k \in 1..Len(chunks) : chunks[k].segs # <<>>
        /\ ConcatChunks(chunks) = texts
        /\ \A k \in 1..Len(chunks) :
            /\ chunks[k].start = Len(ConcatChunks(SubSeq(chunks, 1, k - 1)))
            /\ At0(texts, chunks[k].start) = chunks[k].segs[1]

\* Three chunks, the second of several segments, of texts that all differ
\* from their neighbours.
C6_Witness ==
    /\ pc = "chunked"
    /\ Len(chunks) = 3
    /\ Len(chunks[1].segs) = 1
    /\ Len(chunks[2].segs) = 2
    /\ chunks[3].start = 3
    /\ \A i \in 1..(Len(texts) - 1) : texts[i] # texts[i + 1]

\* C7: make_chunks packs greedily: a chunk of several segments holds at most
\* max_chars characters, a segment longer than max_chars is alone in its
\* chunk, and the first segment of the next chunk would not have fitted.
C7_GreedyPacking ==
    pc = "chunked" =>
        \A k \in 1..Len(chunks) :
            /\ Len(chunks[k].segs) > 1 => TotalChars(chunks[k].segs) <= max_chars
            /\ \A j \in 1..Len(chunks[k].segs) :
                len(chunks[k].segs[j]) > max_chars => Len(chunks[k].segs) = 1
            /\ k < Len(chunks) =>
                TotalChars(chunks[k].segs) + len(chunks[k + 1].segs[1]) > max_chars

\* A chunk of several segments filled exactly to max_chars and followed by
\* another chunk, and a chunk holding one segment longer than max_chars.
C7_Witness ==
    /\ pc = "chunked"
    /\ \E k \in 1..(Len(chunks) - 1) :
        /\ Len(chunks[k].segs) > 1
        /\ TotalChars(chunks[k].segs) = max_chars
    /\ \E k \in 1..Len(chunks) : len(chunks[k].segs[1]) > max_chars

\* C8: post_with_retry returns None only after exactly `attempts` POSTs that
\* all failed at transport level; the first HTTP response, whatever its
\* status, is the value returned, and no POST follows it.
C8_RetryReturns ==
    /\ pc = "post" => \A i \in 1..Len(outcomes) : outcomes[i] = RequestException
    /\ pc = "post_ret" =>
        /\ resp = None =>
            /\ Len(outcomes) = attempts
            /\ \A i \in 1..Len(outcomes) : outcomes[i] = RequestException
        /\ \A i \in 1..Len(outcomes) :
            outcomes[i].kind = "resp" => i = Len(outcomes) /\ resp = outcomes[i]

\* An error-status response to the second of three attempts is returned.
C8_Witness ==
    /\ pc = "post_ret"
    /\ attempts = 3
    /\ Len(outcomes) = 2
    /\ outcomes[1] = RequestException
    /\ resp.kind = "resp"
    /\ resp.status = 500

\* C9: the failure of attempt k is followed by a sleep of backoff * 2^(k-1)
\* and then by another POST, so a call that exhausts its attempts has slept
\* attempts - 1 times when it returns None.
C9_SleepThenRetry ==
    /\ \A k \in 1..Len(sleeps) : sleeps[k] = backoff * Pow2(k - 1)
    /\ pc = "post_ret" =>
        /\ Len(sleeps) > 0 => Len(outcomes) > Len(sleeps)
        /\ (resp = None /\ attempts >= 1) => Len(sleeps) = attempts - 1

\* What the modelled backend's translation of t comes back as once trimmed
\* (markup is kept where it stands), and likewise its reviewer's correction.
TranslationOf(t) == strip(Tr(t))

ReviewOf(t) == strip(Tr(t) \o <<"z">>)

\* The non-empty fragments of a reply, read off token by token: piece is
\* what has been read since the last separator.
RECURSIVE ScanFragments(_, _, _)
ScanFragments(body, i, piece) ==
    LET closed == IF strip(piece) = <<>> THEN <<>> ELSE <<strip(piece)>>
    IN  IF i > Len(body) THEN closed
        ELSE IF body[i] = SEP THEN closed \o ScanFragments(body, i + 1, <<>>)
        ELSE ScanFragments(body, i + 1, Append(piece, body[i]))

ReplyFragments(body) == ScanFragments(body, 1, <<>>)

\* The number of fragments of a reply that hold more than white space.
FragmentCount(body) == Len(ReplyFragments(body))

\* The k-th non-empty fragment of a reply, trimmed.
NthFragment(body, k) == ReplyFragments(body)[k]

\* The current chunk has contributed its results and the loop is back at
\* its head.
ChunkSettled ==
    /\ chunk_idx >= 0
    /\ pc = "next"

\* C1 as stated: translate_batch returns one element per input text, and
\* element i is derived from texts[i] only: texts[i] itself (trimmed when
\* the reviewer echoed it), the backend's translation of texts[i] (or the
\* suspect fragment it returned in its place) or the reviewer's output for
\* texts[i].
C1_ElementFromOwnInput ==
    pc = "done" =>
        /\ Len(retval) = Len(texts)
        /\ \A i \in 1..Len(texts) :
            retval[i] \in {texts[i], strip(texts[i]), TranslationOf(texts[i]),
                           ReviewOf(texts[i]), <<"!">>}

\* C1, amended: translate_batch returns one element per input text; the
\* result at position i of the first pass is, in an accepted chunk, the
\* non-empty fragment of the reply that has the segment's rank in the chunk
\* (with the segment's markup restored), and otherwise texts[i] or what
\* translate made of texts[i]; the review pass keeps it, trims it or
\* replaces it by the reviewer's output for texts[i].
C1_BatchOutputs ==
    /\ Len(results) <= Len(texts)
    /\ ChunkSettled =>
        /\ Len(results) = CurChunk.start + Len(CurChunk.segs)
        /\ \A k \in 1..Len(CurChunk.segs) :
            LET i == CurChunk.start + k
            IN  IF mode = "accepted"
                THEN results[i] = restore_tags(NthFragment(b_resp.body, k), tags_list[k])
                ELSE results[i] \in {texts[i], TranslationOf(texts[i])}
    /\ pc = "done" =>
        /\ Len(retval) = Len(texts)
        /\ \A i \in 1..Len(texts) :
            retval[i] \in {results[i], strip(results[i]), ReviewOf(texts[i])}

\* A chunk of a blank and a non-blank segment whose reply holds an empty
\* fragment, the translation and a surplus fragment is accepted by rank.
C1_Witness ==
    /\ pc = "done"
    /\ texts = << <<" ">>, <<" ", "b">> >>
    /\ retval = << <<"y">>, <<"x">> >>

\* C2: no exception leaves translate or translate_batch; a translate call
\* that did not accept a translation returns its text, every first-pass
\* result that is not an accepted translation is the original text, and
\* without the review pass the first-pass results are what is returned.
C2_NoExceptionDegrade ==
    /\ ~raised
    /\ pc # "failed"
    /\ (pc = "t_ret" /\ ~t_accepted) => t_result = text
    /\ \A i \in 1..Len(results) : ~res_accepted[i] => results[i] = texts[i]
    /\ (pc = "done" /\ ~two_pass) => retval = results /\ Len(retval) = Len(texts)

\* Two chunks of non-blank text for which no translation was accepted
\* (the request failed, or the fallback's translate call degraded): the
\* call has returned the input.
C2_Witness ==
    /\ pc = "done"
    /\ ~two_pass
    /\ Len(chunks) = 2
    /\ \A i \in 1..Len(texts) : strip(texts[i]) # <<>> /\ ~res_accepted[i]
    /\ retval = texts

Miscounted ==
    /\ chunk_idx >= 0
    /\ b_resp.kind = "resp"
    /\ b_resp.status = 200
    /\ b_resp.json
    /\ FragmentCount(b_resp.body) # Len(CurChunk.segs)

\* C4: a chunk whose 200 reply has a number of non-empty fragments other
\* than its segment count is sent to the fallback: its segments are passed
\* to translate one by one in chunk order, and once the chunk is settled it
\* has contributed one result per segment.
C4_MiscountFallsBack ==
    Miscounted =>
        /\ mode = "fallback"
        /\ fb_calls = SubSeq(CurChunk.segs, 1, Len(fb_calls))
        /\ Len(translated_list) = seg_idx
        /\ (pc = "fallback" \/ t_caller = "batch") =>
            Len(results) = CurChunk.start
        /\ pc = "next" =>
            /\ fb_calls = CurChunk.segs
            /\ Len(translated_list) = Len(CurChunk.segs)
            /\ Len(results) = CurChunk.start + Len(CurChunk.segs)

\* A chunk of two segments answered with three fragments has been
\* translated segment by segment.
C4_Witness ==
    /\ Miscounted
    /\ FragmentCount(b_resp.body) = 3
    /\ pc = "next"
    /\ CurChunk.segs = << <<"a">>, <<"a">> >>
    /\ fb_calls = CurChunk.segs
    /\ Len(results) = CurChunk.start + 2

\* C5: in the fallback the segment at global position g = start_index +
\* offset is passed to translate with texts[g-1] and texts[g+1] of the whole
\* input (empty at its ends) as prev and next context, and they go into the
\* request.
C5_FallbackContext ==
    t_caller = "batch" =>
        LET g == CurChunk.start + seg_idx
        IN  /\ text = At0(texts, g)
            /\ prev_text = IF g = 0 THEN <<>> ELSE At0(texts, g - 1)
            /\ next_text = IF g = Len(texts) - 1 THEN <<>> ELSE At0(texts, g + 1)
            /\ caller \in {"translate", "translate_retry"} =>
                payload.prev = prev_text /\ payload.next = next_text

\* The only segment of the middle one of three chunks is sent with its
\* neighbours from the first and the last chunk.
C5_Witness ==
    /\ t_caller = "batch"
    /\ pc = "post"
    /\ Len(chunks) = 3
    /\ chunk_idx = 1
    /\ Len(CurChunk.segs) = 1
    /\ text = <<" ", "b">>
    /\ prev_text = <<"a">>
    /\ next_text = <<" ">>
    /\ payload.prev = <<"a">>
    /\ payload.next = <<" ">>

\* C3 as stated: any two translate calls with the same trimmed text return
\* the same result, and the second issues no POST, whatever the backend
\* answered to the first.
C3_SameTextSameResult ==
    \A i, j \in 1..Len(calls) :
        (i < j /\ strip(calls[i].text) = strip(calls[j].text)) =>
            calls[j].result = calls[i].result /\ ~calls[j].posted

\* C3 amended: once a translate call has returned an accepted translation
\* (one that passed validation and was stored, or a cache hit), every later
\* call with the same trimmed text returns the same result and issues no
\* POST.
C3_AcceptedTextSameResult ==
    \A i, j \in 1..Len(calls) :
        (i < j /\ strip(calls[i].text) = strip(calls[j].text) /\ calls[i].accepted) =>
            calls[j].result = calls[i].result /\ ~calls[j].posted

\* "a" is translated by a request, then " a" is answered from the cache.
C3_Witness ==
    /\ Len(calls) = 2
    /\ calls[1].text = <<"a">>
    /\ calls[1].posted
    /\ calls[1].accepted
    /\ calls[2].text = <<" ", "a">>
    /\ ~calls[2].posted
    /\ calls[2].result = <<"x">>

\* C10: translate returns its text argument as it is, and issues no
\* validation retry, when its request failed on all attempts or was answered
\* with a status other than 200.
C10_DegradeUnchanged ==
    (pc = "t_ret" /\ t_posted /\ (t_resp = None \/ t_resp.status # 200)) =>
        /\ t_result = text
        /\ ~t_retried
        /\ retry_resp = None

\* A text with trailing white space comes back untrimmed after a 500.
C10_Witness ==
    /\ pc = "t_ret"
    /\ t_posted
    /\ t_resp.kind = "resp"
    /\ t_resp.status = 500
    /\ text = <<"b", " ">>
    /\ t_result = <<"b", " ">>

\* The candidate translation taken from a 200 reply: its "response" string,
\* or its raw body, trimmed.
ReplyText(r) == strip(r.body)

\* What is in the state of a translate call about its validation retry.
C11_RetryState ==
    /\ caller = "translate_retry" =>
        /\ t_retried
        /\ t_resp.kind = "resp" /\ t_resp.status = 200
        /\ ~validate_translation(text, ReplyText(t_resp))
        /\ attempts = 1
        /\ payload.kind = "translate"
        /\ restore_tags(payload.segs[1], tags) = text
        /\ payload.prev = prev_text /\ payload.next = next_text
        /\ posts <= 1
        /\ pc = "post_ret" => posts = 1
    /\ (pc = "t_ret" /\ t_posted /\ t_resp.kind = "resp" /\ t_resp.status = 200) =>
        LET first == ReplyText(t_resp)
            again == IF retry_resp.kind = "resp" /\ retry_resp.status = 200 /\ retry_resp.json
                     THEN ReplyText(retry_resp) ELSE first
        IN  IF validate_translation(text, first)
            THEN ~t_retried /\ retry_resp = None /\ t_result = restore_tags(first, tags)
            ELSE /\ t_retried
                 /\ t_result = IF validate_translation(text, again)
                               THEN restore_tags(again, tags) ELSE text

\* The steps into and out of the validation retry.
C11_RetryStep ==
    /\ (caller' = "translate_retry" /\ caller # "translate_retry") =>
        /\ caller = "translate" /\ pc = "post_ret" /\ ~t_retried
        /\ payload' = payload
    /\ (caller = "translate_retry" /\ caller' # "translate_retry") =>
        pc' = "t_ret" /\ caller' = "none"
    /\ (t_retried /\ t_retried') => caller' \in {"translate_retry", "none"}

\* C11: in translate, a first 200 reply that fails validate_translation is
\* followed by exactly one more POST, with the payload of the first; when
\* the candidate still fails validation afterwards (the extra request
\* failed, was not a 200, or brought another bad reply) the text is
\* returned; a first reply that passes validation is followed by no POST.
C11_ValidationRetry == [][C11_RetryState /\ C11_RetryState' /\ C11_RetryStep]_vars

\* The retry brought a second 200 reply that failed validation again, and
\* the text was returned.
C11_Witness ==
    /\ pc = "t_ret"
    /\ t_retried
    /\ retry_resp.kind = "resp" /\ retry_resp.status = 200 /\ retry_resp.json
    /\ ~t_accepted
    /\ t_result = text
    /\ text = <<" ", "a">>

\* C12: translate called with an empty or white-space-only text returns
\* that text as it is, starts no backend request, and leaves the cache and
\* the cache-hit counter as they were.
C12_BlankUntouched ==
    [][(t_caller = "none" /\ t_caller' # "none" /\ \A i \in 1..Len(text') : IsSpace(text'[i])) =>
        /\ pc' = "t_ret"
        /\ t_result' = text'
        /\ ~t_posted'
        /\ caller' = caller /\ posts' = posts /\ pc' # "post"
        /\ cache' = cache
        /\ cache_hits' = cache_hits]_vars

\* A white-space-only text has been returned by an instance whose cache
\* already holds a translation.
C12_Witness ==
    /\ pc = "t_ret"
    /\ text = <<" ">>
    /\ t_result = <<" ">>
    /\ ~t_posted
    /\ DOMAIN cache # {}

\* C13: in translate, a 200 reply that is not structured data gives its
\* trimmed raw body as the candidate: if it passes validate_translation it
\* is returned with the markup restored and stored in the cache under the
\* trimmed text, without a retry; if it fails, the validation retry is made.
C13_RawBodyFallback ==
    (t_posted /\ t_resp.kind = "resp" /\ t_resp.status = 200 /\ ~t_resp.json) =>
        LET candidate == strip(t_resp.body)
        IN  IF validate_translation(text, candidate)
            THEN /\ pc = "t_ret"
                 /\ ~t_retried
                 /\ t_accepted
                 /\ t_result = restore_tags(candidate, tags)
                 /\ strip(text) \in DOMAIN cache
                 /\ cache[strip(text)] = t_result
            ELSE /\ t_retried
                 /\ caller = "translate_retry" \/ pc = "t_ret"

\* A tagged text answered with an unstructured body: the trimmed body with
\* the tag put back is returned and cached.
C13_Witness ==
    /\ pc = "t_ret"
    /\ text = <<"<i>", "b">>
    /\ t_resp.kind = "resp" /\ t_resp.status = 200 /\ ~t_resp.json
    /\ t_resp.body # strip(t_resp.body)
    /\ t_result = <<"<i>", "y">>
    /\ cache[<<"<i>", "b">>] = <<"<i>", "y">>

\* C14: validate_translation(original, translated) is False exactly when
\* translated is empty or all white space, or equals original once both are
\* trimmed, or is more than five times as long as an original of more than
\* ten characters, or holds no word character; so validate_translation(s, s)
\* is False for every s.
C14_ValidateExactly ==
    pc = "validated" =>
        /\ t_accepted =
            ~ \/ \A i \in 1..Len(t_translated) : IsSpace(t_translated[i])
              \/ strip(t_translated) = strip(text)
              \/ len(t_translated) > 5 * len(text) /\ len(text) > 10
              \/ ~ \E i \in 1..Len(t_translated) : IsWord(t_translated[i])
        /\ t_translated = text => ~t_accepted

\* A translation that differs from its original only by surrounding white
\* space has been rejected.
C14_Witness ==
    /\ pc = "validated"
    /\ text = <<"a", " ">>
    /\ t_translated = <<" ", "a">>
    /\ ~t_accepted

\* C15 as stated: validate_translation("Hello", "H" * 100) is False.
C15_HelloRejected ==
    (pc = "validated" /\ text = Rep("a", 5) /\ t_translated = Rep("x", 100)) => ~t_accepted

\* C15, amended: the length-ratio guard applies to originals of more than
\* ten characters only: a translation of 100 characters is accepted for the
\* five characters of "Hello" and for an original of ten characters, and
\* rejected for an original of eleven; for that original 55 characters pass
\* and 56 do not.
C15_RatioGuard ==
    (pc = "validated" /\ \E i \in 1..Len(t_translated) : IsWord(t_translated[i])) =>
        /\ (len(text) = 5 /\ len(t_translated) = 100) => t_accepted
        /\ (len(text) = 10 /\ len(t_translated) > 50) => t_accepted
        /\ (len(text) = 11 /\ len(t_translated) = 55) => t_accepted
        /\ (len(text) = 11 /\ len(t_translated) > 55) => ~t_accepted

\* validate_translation("Hello", "H" * 100) has returned True.
C15_Witness ==
    /\ pc = "validated"
    /\ text = Rep("a", 5)
    /\ t_translated = Rep("x", 100)
    /\ t_accepted

\* The current chunk's request was answered by a 200 reply that parses.
ParsedReply ==
    /\ chunk_idx >= 0
    /\ b_resp.kind = "resp"
    /\ b_resp.status = 200
    /\ b_resp.json

\* The ranks of the fragments of the current chunk's reply that fail
\* validate_translation against the segment of the same rank.
SuspectRanks ==
    LET fragments == ReplyFragments(b_resp.body)
    IN  {k \in 1..Len(CurChunk.segs) :
            ~validate_translation(CurChunk.segs[k], fragments[k])}

\* C16: a chunk's parsed reply is accepted exactly when it has one non-empty
\* fragment per segment and at most half of the fragments fail
\* validate_translation, and otherwise the chunk goes to the per-segment
\* fallback; in an accepted chunk translate is not called and the suspect
\* fragments are the results at their positions.
C16_ChunkAcceptance ==
    ParsedReply =>
        LET n == Len(CurChunk.segs)
            ok == IF FragmentCount(b_resp.body) = n
                  THEN 2 * Cardinality(SuspectRanks) <= n
                  ELSE FALSE
        IN  /\ mode = (IF ok THEN "accepted" ELSE "fallback")
            /\ ok =>
                /\ fb_calls = <<>>
                /\ t_caller = "none"
                /\ ChunkSettled =>
                    \A k \in SuspectRanks :
                        results[CurChunk.start + k] =
                            restore_tags(NthFragment(b_resp.body, k), tags_list[k])

\* A chunk of two segments whose reply holds one translation and one
\* punctuation-only fragment has been accepted with the suspect fragment
\* as the second result.
C16_Witness ==
    /\ ParsedReply
    /\ pc = "next"
    /\ mode = "accepted"
    /\ CurChunk.segs = << <<"a">>, <<" ", "b">> >>
    /\ SuspectRanks = {2}
    /\ results[CurChunk.start + 2] = <<"!">>
    /\ results[CurChunk.start + 1] = <<"x">>

\* The current chunk's request has returned None or a status other than 200.
ChunkRequestFailed ==
    /\ chunk_idx >= 0
    /\ caller \notin {"batch", "review"}
    /\ pc \notin {"review", "done"}
    /\ b_resp = None \/ (b_resp.kind = "resp" /\ b_resp.status # 200)

\* C17: a chunk whose request returned None (transport failure on every
\* attempt) or a status other than 200 contributes its original texts and
\* no translate call is made for it; the chunk loop goes on to every later
\* chunk; when no result at all is an accepted translation and two_pass is
\* off, the value returned is the input list.
C17_DegradeAndContinue ==
    /\ ChunkRequestFailed =>
        /\ fb_calls = <<>>
        /\ t_caller = "none"
        /\ pc = "next"
        /\ Len(results) = CurChunk.start + Len(CurChunk.segs)
        /\ SubSeq(results, CurChunk.start + 1, Len(results)) = CurChunk.segs
    /\ (pc \in {"review", "done"} /\ texts # <<>>) => chunk_idx = Len(chunks) - 1
    /\ (pc = "done" /\ ~two_pass /\ \A i \in 1..Len(res_accepted) : ~res_accepted[i]) =>
        retval = texts

\* Of three chunks the first was left untranslated, the second was
\* translated, and the last got no response at all: its text is the third
\* result.
C17_Witness ==
    /\ pc = "next"
    /\ Len(chunks) = 3
    /\ chunk_idx = 2
    /\ ChunkRequestFailed
    /\ b_resp = None
    /\ results[1] = texts[1] /\ ~res_accepted[1]
    /\ res_accepted[2] /\ results[2] # texts[2]
    /\ results[3] = texts[3]
    /\ strip(texts[3]) # <<>>

\* The review pass has begun.
InReview == pc = "review" \/ caller = "review" \/ reviewed # <<>>

\* What is in the state of translate_batch about its review pass.
C18_ReviewState ==
    /\ InReview =>
        /\ two_pass
        /\ chunk_idx = Len(chunks) - 1
        /\ Len(results) = Len(texts)
        /\ t_caller = "none"
        /\ caller \in {"review", "none"}
        /\ Len(reviewed) <= Len(results)
    /\ caller = "review" =>
        /\ Len(reviewed) < Len(results)
        /\ payload.kind = "review"
        /\ payload.segs = <<At0(texts, Len(reviewed)), At0(results, Len(reviewed))>>
    /\ (pc = "done" /\ two_pass /\ texts # <<>>) =>
        /\ Len(reviewed) = Len(texts)
        /\ retval = reviewed
    /\ ~two_pass => ~InReview

\* The steps of the review pass: results are taken one at a time, in order.
C18_ReviewStep ==
    /\ reviewed' # reviewed =>
        /\ Len(reviewed') = Len(reviewed) + 1
        /\ SubSeq(reviewed', 1, Len(reviewed)) = reviewed
        /\ caller = "review" \/ pc = "review"
        /\ caller' = "none"
    /\ (caller' = "review" /\ caller # "review") => pc = "review" /\ reviewed' = reviewed
    /\ (pc = "review" /\ pc' = "done") => Len(reviewed) = Len(results)
    /\ InReview => results' = results

\* C18: with two_pass on, translate_batch sends no review request before
\* the last chunk is settled, then passes result 0, 1, .. n-1 with its text
\* through review, each once and in this order, and returns the reviewed
\* list; with two_pass off the review pass is never entered.
C18_ReviewAfterAll == [][C18_ReviewState /\ C18_ReviewState' /\ C18_ReviewStep]_vars

\* Three results from more than one chunk have been reviewed, and the
\* reviewer changed the last.
C18_Witness ==
    /\ pc = "done"
    /\ two_pass
    /\ Len(texts) = 3
    /\ Len(chunks) >= 2
    /\ Len(reviewed) = 3
    /\ retval[3] # results[3]
    /\ retval[1] = results[1]

\* C19: a translate_batch call that supplies a progress and a phase
\* callback, as the web worker's does, runs to completion: it does not end
\* in an exception.
C19_CallbackCallCompletes == pc # "task_error" /\ ~raised

\* What review must return for an original, a first-pass translation and
\* the outcome r of its request.
ReviewExpected(original, trans, r) ==
    IF r.kind # "resp" \/ r.status # 200 \/ ~r.json THEN trans
    ELSE LET out == strip(r.body)
         IN  IF \A i \in 1..Len(out) : IsSpace(out[i]) THEN trans
             ELSE IF len(out) > 5 * len(original) /\ len(original) > 10 THEN trans
             ELSE out

\* C20: review never raises; for a blank original or translation it
\* returns the translation without a request; when its request failed, was
\* not a 200 or not parseable, or the reviewer's output is blank or more
\* than five times as long as an original of more than ten characters, it
\* returns the translation as it is; in every other case it returns the
\* reviewer's trimmed output.
C20_ReviewKeepsOrReplaces ==
    [][/\ ~raised'
       /\ pc' # "failed"
       /\ reviewed' # reviewed =>
            LET i == Len(reviewed)
                original == At0(texts, i)
                trans == At0(results, i)
                out == reviewed'[i + 1]
            IN  IF strip(original) = <<>> \/ strip(trans) = <<>>
                THEN out = trans /\ caller = "none" /\ pc = "review"
                ELSE /\ caller = "review" /\ pc = "post_ret"
                     /\ out = ReviewExpected(original, trans, resp)
       /\ (caller' = "review" /\ caller # "review") =>
            /\ strip(At0(texts, Len(reviewed))) # <<>>
            /\ strip(At0(results, Len(reviewed))) # <<>>]_vars

\* review has replaced the translation of an original of eleven characters
\* by the reviewer's output.
C20_Witness ==
    /\ pc = "done"
    /\ texts = << <<SEP, "a", "a">> >>
    /\ results = << <<" ", "y">> >>
    /\ retval = << <<SEP, "x", "x", "z">> >>

\* The constructor ran with the backend unreachable, or with an answer that
\* does not list the requested model.
BackendUnreachable == arg.tags.kind # "resp"

ModelAbsent ==
    /\ arg.tags.kind = "resp"
    /\ arg.tags.status = 200
    /\ ~available_has(arg.model, arg.tags.models)

\* C21: constructing a Translator yields no instance when the backend is
\* unreachable or the requested model is not in the backend's model list,
\* whether stdin is a terminal or not.
C21_NoInstanceOnStartupFailure ==
    pc = "constructed" =>
        ((BackendUnreachable \/ ModelAbsent) => ret # "instance")

\* C22: the constructor ends in SystemExit both when the tags endpoint
\* answers 200 without the requested model and when the connection is
\* refused.
C22_StartupFailuresExit ==
    pc = "constructed" =>
        ((ModelAbsent \/ arg.tags.kind = "ConnectionError") => ret = "SystemExit")

\* C23: parse_srt applied to what write_srt writes for the blocks of
\* parse_srt(x) gives those blocks again: same indexes, time ranges and
\* lines, in the same order, also for blocks without text lines and for no
\* blocks at all.
C23_WriteParseRoundTrip ==
    pc = "reparsed" =>
        /\ ret.reparsed.exc = "none"
        /\ ret.reparsed.val = ret.parsed.val

\* Two blocks without text lines, the first numbered "07", have been
\* written and parsed again; the written text is not the text that was read.
C23_Witness ==
    /\ pc = "reparsed"
    /\ ret.written # arg.text
    /\ Len(ret.parsed.val) = 2
    /\ ret.parsed.val[2].lines = <<>>
    /\ arg.text = <<"0", "7", "\n", " ", "T", "a", "\n", "\n", "7", "\n", " ", "T", "a">>

\* The lines parse_srt works on.
InputLines == split_lines(normalise_newlines(arg.text))

\* C25: parse_srt ends without an exception on every text; each block
\* it returns stems from a digits-only line immediately followed by a line
\* matching the time-range pattern, and an input without such a pair of
\* lines gives no block.
C25_ParseTolerant ==
    pc \in {"parsed", "failed"} =>
        /\ ret.parsed.exc = "none"
        /\ \A b \in 1..Len(ret.parsed.val) :
            \E i \in 1..(Len(InputLines) - 1) :
                /\ isdigit(strip(InputLines[i]))
                /\ TIME_RE_match(strip(InputLines[i + 1]))
                /\ ret.parsed.val[b].timecode = strip(InputLines[i + 1])

\* The number of markup matches in a text.
TagCount(s) == Cardinality({i \in 1..Len(s) : s[i] \in Tags})

\* C24: restore_tags gives back the text protect_tags was given; the
\* protected text holds no markup; a text without markup is returned as it
\* is with an empty map; the map has one entry per match, under keys that
\* differ from one another.
C24_ProtectRestoreRoundTrip ==
    /\ pc \in {"protected", "restored"} =>
        /\ TagCount(ret.protected) = 0
        /\ Len(ret.tags) = TagCount(arg.text)
        /\ \A i, j \in 1..Len(ret.tags) : i # j => ret.tags[i][1] # ret.tags[j][1]
        /\ TagCount(arg.text) = 0 => (ret.protected = arg.text /\ ret.tags = <<>>)
    /\ pc = "restored" => ret.restored = arg.text

\* A text holding the same tag twice and another tag has been protected
\* and restored.
C24_Witness ==
    /\ pc = "restored"
    /\ arg.text = <<"<i>", "a", "</i>", "<i>">>
    /\ Len(ret.tags) = 3
    /\ ret.protected # arg.text

PrecedenceEncoding ==
    IF startswith_bom(arg.raw) THEN "utf-8-sig"
    ELSE IF decode(arg.raw, "utf-8").err = "none" THEN "utf-8"
    ELSE IF arg.detector \notin {"absent", "none"}
            /\ decode(arg.raw, arg.detector).err = "none" THEN arg.detector
    ELSE IF \E k \in 1..Len(FallbackEncodings) : decode(arg.raw, FallbackEncodings[k]).err = "none"
    THEN LET k == CHOOSE j \in 1..Len(FallbackEncodings) :
                    /\ decode(arg.raw, FallbackEncodings[j]).err = "none"
                    /\ \A h \in 1..(j - 1) : decode(arg.raw, FallbackEncodings[h]).err # "none"
         IN  FallbackEncodings[k]
    ELSE "utf-8"

\* C27: read_srt_file never ends in a decoding error; it reports the
\* encoding of the first strategy that succeeds, in the order byte-order
\* mark, strict UTF-8, detector, cp1251, latin-1, iso-8859-2, shift_jis,
\* lossy UTF-8; and bytes that are not valid UTF-8 but decode as cp1251 are
\* reported as cp1251.
C27_EncodingPrecedence ==
    pc = "read" =>
        /\ ret.exc = "none"
        /\ ret.enc = PrecedenceEncoding
        /\ (decode(arg.raw, "utf-8").err # "none" /\ decode(arg.raw, "cp1251").err = "none")
            => ret.enc = "cp1251"

\* C28: whatever the interleaving of the worker tasks, the Translator a
\* task holds was constructed by that task, no two tasks hold the same
\* Translator, and a Translator (with its cache and hit counter) is used by
\* no task but the one that constructed it.
C28_TranslatorPerTask ==
    pc = "serving" =>
        /\ \A t \in DOMAIN arg :
            arg[t].translator # 0 => ret[arg[t].translator].creator = t
        /\ \A t, u \in DOMAIN arg :
            (t # u /\ arg[t].translator # 0) => arg[t].translator # arg[u].translator
        /\ \A i \in 1..Len(ret) : ret[i].users \subseteq {ret[i].creator}

\* Three tasks ran side by side; the second constructed its Translator
\* first and has used it while the first holds another one.
C28_Witness ==
    /\ pc = "serving"
    /\ Len(arg) = 3
    /\ arg[2].translator = 1
    /\ ret[1].users = {2}
    /\ arg[1].translator = 2
    /\ arg[1].at = "constructed"
    /\ arg[3].at = "running"

\* The subtitle streams of the probed container, in container order.
SubtitleStreams == SelectSeq(arg.streams, LAMBDA st : st.codec_type = "subtitle")

\* C29: probe_subtitle_tracks returns one track per subtitle stream, in
\* container order, numbered 0, 1, 2, ... over the subtitle streams alone;
\* the stream ffmpeg maps for 0:s:k with k a track's sub_index is the
\* stream that track was made from.
C29_SubIndexDesignatesStream ==
    /\ pc \in {"probed", "extracted"} =>
        /\ Len(ret.tracks) = Len(SubtitleStreams)
        /\ \A j \in 1..Len(ret.tracks) :
            /\ ret.tracks[j].sub_index = j - 1
            /\ ret.tracks[j].index = SubtitleStreams[j].index
            /\ ret.tracks[j].codec_name = SubtitleStreams[j].codec_name
    /\ pc = "extracted" =>
        /\ ret.mapped.found
        /\ ret.mapped.index = ret.tracks[ret.chosen].index

\* In a container of a video, a subtitle, an audio and another subtitle
\* stream, the second track (sub_index 1) was extracted: stream 3.
C29_Witness ==
    /\ pc = "extracted"
    /\ Len(arg.streams) = 4
    /\ arg.streams[1].codec_type = "video"
    /\ arg.streams[3].codec_type = "audio"
    /\ Len(ret.tracks) = 2
    /\ ret.chosen = 2
    /\ ret.tracks[2].sub_index = 1
    /\ ret.mapped.index = 3

\* A step that changes the cache is translate acting on a reply to its own
\* request: it adds one entry, under the trimmed non-blank text of the
\* running call, whose value is the validated reply with the markup
\* restored.
C30_CacheWrite ==
    cache' # cache =>
        /\ pc = "post_ret"
        /\ caller \in {"translate", "translate_retry"}
        /\ resp # None
        /\ resp.status = 200
        /\ strip(text) # <<>>
        /\ strip(text) \notin DOMAIN cache
        /\ DOMAIN cache' = DOMAIN cache \cup {strip(text)}
        /\ validate_translation(text, t_translated')
        /\ cache'[strip(text)] = restore_tags(t_translated', tags)
        /\ t_accepted'
        /\ t_result' = cache'[strip(text)]

C30_CacheStep ==
    /\ DOMAIN cache \subseteq DOMAIN cache'
    /\ \A k \in DOMAIN cache : cache'[k] = cache[k]
    /\ C30_CacheWrite
    /\ (pc' = "t_ret" /\ ~t_accepted') => cache' = cache
    /\ caller \in {"batch", "review"} => cache' = cache

\* C30: during translate_batch, with its fallback calls of translate and
\* its review pass, the cache only grows: no entry is removed or replaced;
\* an entry is added only by translate, for a reply that passed
\* validate_translation, under the trimmed non-blank input; the degrade
\* paths, the accepted batch and review leave the cache as it is.
C30_CacheGrowsOnly == [][C30_CacheStep]_vars

\* A call has ended after its fallback stored two entries, one of them
\* under the trimmed form of its input, and after the review pass.
C30_Witness ==
    /\ pc = "done"
    /\ two_pass
    /\ Len(reviewed) >= 2
    /\ <<"a">> \in DOMAIN cache
    /\ <<"b">> \in DOMAIN cache
    /\ cache[<<"b">>] = <<"y">>
    /\ \E i \in 1..Len(texts) : texts[i] = <<" ", "b">>

\* The most POSTs the running post_with_retry call may make, by its caller:
\* the batch request, translate's request, translate's validation retry,
\* review's request.
PostLimit ==
    CASE caller = "batch" -> 3
      [] caller = "translate" -> 3
      [] caller = "translate_retry" -> 1
      [] caller = "review" -> 2
      [] OTHER -> 0

\* Steps the running post_with_retry call can still take.
FrameLeft == IF pc = "post" THEN (attempts - attempt + 1) + 1 ELSE 0

\* Steps a call of translate from the fallback can still take.
TranslateLeft ==
    CASE pc = "t_ret" -> 1
      [] caller = "translate" -> FrameLeft + 5
      [] caller = "translate_retry" -> FrameLeft + 2
      [] OTHER -> 0

\* The segments of the chunks after the running one.
RECURSIVE SegsFrom(_)
SegsFrom(k) == IF k > Len(chunks) THEN 0 ELSE Len(chunks[k].segs) + SegsFrom(k + 1)

\* A bound on the steps translate_batch can still take: it is 0 when the
\* call has ended.
StepsLeft ==
    IF pc \in {"idle", "done", "failed"} THEN 0
    ELSE IF pc = "review" \/ caller = "review"
    THEN (IF pc = "review" THEN 0 ELSE FrameLeft + 1 - 5)
         + (Len(texts) - Len(reviewed)) * 5 + 1
    ELSE LET n == Len(CurChunk.segs)
             running ==
                CASE pc = "next" -> 0
                  [] caller = "batch" -> FrameLeft + 1 + n * 10 + 1
                  [] pc = "fallback" -> (n - seg_idx) * 10 + 1
                  [] OTHER -> TranslateLeft + (n - seg_idx - 1) * 10 + 1
         IN  running + 7 * (Len(chunks) - chunk_idx - 1) + 10 * SegsFrom(chunk_idx + 2)
             + 1 + Len(texts) * 5 + 1

\* A post_with_retry call begins only when none is running, once per chunk
\* for the batch request, once per translate call for its request and once
\* more for its validation retry, once per reviewed segment; translate is
\* called once per segment of a chunk in fallback.
C31_FrameStart ==
    (pc' = "post" /\ pc # "post") =>
        /\ caller = "none" \/ (caller = "translate" /\ caller' = "translate_retry")
        /\ caller' = "batch" => (pc = "next" /\ chunk_idx' = chunk_idx + 1)
        /\ caller' = "translate" =>
            (pc = "fallback" /\ t_caller = "none" /\ Len(fb_calls') = seg_idx + 1)
        /\ caller' = "translate_retry" => (~t_retried /\ t_retried')
        /\ caller' = "review" => (pc = "review" /\ reviewed' = reviewed)

C31_Step ==
    /\ pc # "idle" => (StepsLeft' < StepsLeft /\ StepsLeft' >= 0)
    /\ C31_FrameStart
    /\ pc = "post" => (caller' = caller /\ attempts' = attempts /\ pc' \in {"post", "post_ret"})
    /\ pc' \in {"post", "post_ret"} =>
        /\ Len(outcomes') <= attempts'
        /\ attempts' = PostLimit'
    /\ (pc = "post_ret" /\ caller = "review") => Len(reviewed') = Len(reviewed) + 1
    /\ (pc = "t_ret") => seg_idx' = seg_idx + 1

\* C31: translate_batch ends after a bounded number of steps whatever the
\* backend does (every step lowers a bound on the steps left); its requests
\* are made one after the other, at most 3 for a chunk's batch request, at
\* most 3 and then 1 for a segment in fallback (none for a blank or cached
\* segment), at most 2 for a reviewed segment.
C31_BoundedSequentialPosts == [][C31_Step]_vars

\* The review of a second segment has used both of its attempts, after a
\* chunk went through the fallback.
C31_Witness ==
    /\ pc = "post_ret"
    /\ caller = "review"
    /\ Len(outcomes) = 2
    /\ resp = None
    /\ Len(reviewed) = 1
    /\ \E i \in 1..Len(res_accepted) : res_accepted[i]

\* The reply to the running request gives back the text that was sent.
IsEcho(r) ==
    /\ r.kind = "resp"
    /\ r.status = 200
    /\ r.json
    /\ strip(r.body) = strip(payload.segs[1])

C32_EchoStep ==
    /\ (pc = "post_ret" /\ caller = "translate" /\ IsEcho(resp)) =>
        /\ pc' = "post"
        /\ caller' = "translate_retry"
        /\ cache' = cache
    /\ (pc = "post_ret" /\ caller = "translate_retry" /\ IsEcho(resp)) =>
        /\ pc' = "t_ret"
        /\ t_result' = text
        /\ ~t_accepted'
        /\ cache' = cache

\* C32: in translate a reply that gives the sent text back starts the
\* validation retry, and when the retry's reply does so again the original
\* is returned and the cache is left as it is; this for texts with markup
\* as for texts without.
C32_EchoIsFailure == [][C32_EchoStep]_vars

\* Every placeholder of the running translate call stands in the text c.
PlaceholdersKept(c) ==
    \A k \in 1..Len(tags) : \E i \in 1..Len(c) : c[i] = tags[k][1]

C33_AcceptStep ==
    (/\ pc = "post_ret"
     /\ caller = "translate"
     /\ resp.kind = "resp"
     /\ resp.status = 200
     /\ resp.json
     /\ PlaceholdersKept(strip(resp.body))
     /\ validate_translation(text, restore_tags(strip(resp.body), tags)))
    => /\ pc' = "t_ret"
       /\ t_accepted'
       /\ t_result' = restore_tags(strip(resp.body), tags)

\* C33: a reply of translate that keeps every placeholder and whose
\* tag-restored form passes validate_translation against the original text
\* is accepted and returned in its restored form, however many tags the
\* text has.
C33_AcceptanceIgnoresPlaceholders == [][C33_AcceptStep]_vars

\* The reply c with every placeholder that equals a key of the running call
\* replaced by the markup recorded for it, and every other token as it is.
RestoredLiterally(c, out) ==
    /\ Len(out) = Len(c)
    /\ \A i \in 1..Len(c) :
        IF \E k \in 1..Len(tags) : tags[k][1] = c[i]
        THEN \E k \in 1..Len(tags) : tags[k][1] = c[i] /\ out[i] = tags[k][2]
        ELSE out[i] = c[i]

\* The 200 reply r parses and passes validate_translation as it was sent.
ValidReply(r) ==
    /\ r.kind = "resp"
    /\ r.status = 200
    /\ r.json
    /\ validate_translation(text, strip(r.body))

\* Some placeholder of the running call is altered in c or missing from it.
IsLossy(c) == ~PlaceholdersKept(c)

C34_RestoreStep ==
    (/\ pc = "post_ret"
     /\ caller \in {"translate", "translate_retry"}
     /\ IF caller = "translate" THEN ValidReply(resp)
        ELSE ValidReply(resp) /\ ~validate_translation(text, t_translated))
    => /\ pc' = "t_ret"
       /\ t_accepted'
       /\ RestoredLiterally(strip(resp.body), t_result')
       /\ cache' = CachePut(cache, cache_key(text), t_result')

\* C34: restore_tags replaces every placeholder the backend kept by its
\* markup and leaves everything else of the reply as it is, so an altered
\* placeholder stays in the output and an omitted one leaves its markup
\* out; translate accepts, stores and returns such a result as it does a
\* complete one.
C34_RestorationLiteralAndLossy == [][C34_RestoreStep]_vars

\* translate returned an accepted result with an altered placeholder left
\* in it, or one with less markup than the original text.
C34_Witness ==
    /\ pc = "t_ret"
    /\ t_accepted
    /\ tags # <<>>
    /\ \/ \E i \in 1..Len(t_result) : t_result[i] \in MangledPlaceholders
       \/ TagCount(t_result) < TagCount(text)
    /\ cache_key(text) \in DOMAIN cache
    /\ cache[cache_key(text)] = t_result

\* The index and time-range of every block of a parsed document.
Frames(blocks) ==
    [k \in 1..Len(blocks) |-> <<blocks[k].index, blocks[k].timecode>>]

\* C35: the document the pipeline writes parses into as many segments as
\* the document read, with the same indexes and time-ranges, whatever the
\* backend replied.
C35_WrittenDocumentWellFormed ==
    (pc = "cli_done" /\ arg # <<>> /\ arg.pipeline = "cli")
    => /\ parse_srt(ret.written).exc = "none"
       /\ Frames(parse_srt(ret.written).val) = Frames(arg.blocks)

C36_ReviewStep ==
    LET i == Len(reviewed)
    IN  /\ (pc = "review" /\ pc' = "post")
           => /\ caller' = "review"
              /\ payload'.segs = <<At0(texts, i), At0(results, i)>>
              /\ payload'.prev = (IF i > 0 THEN At0(texts, i - 1) ELSE <<>>)
              /\ payload'.next = (IF i < Len(texts) - 1 THEN At0(texts, i + 1) ELSE <<>>)
              /\ payload'.prevtr = (IF i > 0 THEN At0(results, i - 1) ELSE <<>>)
        /\ (pc = "review" \/ caller = "review")
           => /\ results' = results
              /\ texts' = texts
              /\ pc' # "failed"
        /\ (pc = "post_ret" /\ caller = "review")
           => /\ payload.segs = <<At0(texts, i), At0(results, i)>>
              /\ reviewed' = Append(reviewed, ReviewResult(resp, At0(texts, i), At0(results, i)))

\* C36: the review of segment i is asked with the original texts of its
\* neighbours and the first-pass translation of segment i-1; the first-pass
\* results do not change during the review pass, and what is recorded for
\* segment i is computed from its own reply, text and first-pass result
\* alone, never from what was recorded for another segment.
C36_ReviewUsesFirstPass == [][C36_ReviewStep]_vars

\* A review is asked for a segment whose predecessor was corrected by the
\* reviewer: the uncorrected translation is what is sent.
C36_Witness ==
    /\ pc = "post"
    /\ caller = "review"
    /\ Len(reviewed) >= 1
    /\ reviewed[Len(reviewed)] # results[Len(reviewed)]
    /\ payload.prevtr = results[Len(reviewed)]
    /\ payload.prevtr # reviewed[Len(reviewed)]

\* The moves a task's status may make.
StatusMoves ==
    {<<"starting", "running">>, <<"running", "done">>, <<"running", "error">>}

\* What a client polling /progress may be shown, in order.
StatusHistories ==
    {<<>>, <<"starting">>, <<"running">>, <<"done">>, <<"error">>,
     <<"starting", "running">>, <<"starting", "done">>, <<"starting", "error">>,
     <<"running", "done">>, <<"running", "error">>,
     <<"starting", "running", "done">>, <<"starting", "running", "error">>}

\* In the sequence of statements seq, field b is written after field a.
WrittenAfter(seq, a, b) ==
    \A i \in 1..Len(seq) : seq[i] = b => \E j \in 1..(i - 1) : seq[j] = a

C37_RegistryStep ==
    /\ WrittenAfter(DoneWrites, "output_file", "status")
    /\ WrittenAfter(DoneWrites, "completed_at", "status")
    /\ WrittenAfter(DoneWrites, "write_srt", "status")
    /\ pc' = "registry"
       => \A id \in DOMAIN ret'.tasks :
            /\ ret'.tasks[id].status = "done"
               => /\ ret'.tasks[id].output_file # Unset
                  /\ ret'.tasks[id].completed_at # 0
            /\ ret'.seen[id] \in StatusHistories
            /\ ret'.download[id] = "file" => ret'.tasks[id].status = "done"
    /\ pc = "registry"
       => \A id \in DOMAIN ret.tasks \cap DOMAIN ret'.tasks :
            \/ ret'.tasks[id].status = ret.tasks[id].status
            \/ <<ret.tasks[id].status, ret'.tasks[id].status>> \in StatusMoves

Handed(id) == pc = "registry" /\ ret.at[id] = "submitted"

\* Task id has a terminal status and its completed_at, or is no longer in
\* the registry.
Settled(id) ==
    /\ pc = "registry"
    /\ id \in DOMAIN ret.tasks
       => /\ ret.tasks[id].status \in {"done", "error"}
          /\ ret.tasks[id].completed_at # 0

C39_FilesOutliveTasks ==
    pc = "registry"
    => \A id \in DOMAIN ret.tasks :
        /\ ret.tasks[id].status = "done"
           => ret.tasks[id].output_file \in DOMAIN arg.files
        /\ (ret.tasks[id].status \in {"starting", "running"} /\ ret.at[id] # "ended")
           => InputPath(id) \in DOMAIN arg.files

\* The blocks' lines lie one after the other in the input: each span
\* starts where an index line stands, after the end of the span before it.
SpansInOrder(spans, lines, blocks) ==
    /\ Len(spans) = Len(blocks)
    /\ \A k \in 1..Len(spans) :
        /\ 0 <= spans[k][1]
        /\ spans[k][1] + 2 <= spans[k][2]
        /\ spans[k][2] <= Len(lines)
        /\ isdigit(strip(At0(lines, spans[k][1])))
        /\ blocks[k].index = int(strip(At0(lines, spans[k][1]))).val
        /\ blocks[k].timecode = strip(At0(lines, spans[k][1] + 1))
        /\ blocks[k].lines = SubSeq(lines, spans[k][1] + 3, spans[k][2])
        /\ k > 1 => spans[k - 1][2] < spans[k][1]

\* The iterations the loop can still make: it is left when the cursor
\* has reached the number of lines.
IterationsLeft == IF pc = "parsing" THEN Len(arg.lines) + 2 - ret.i ELSE 0

C40_LoopStep ==
    /\ pc = "parsing"
       => /\ pc' = "parsing" => ret'.i > ret.i
          /\ IterationsLeft' < IterationsLeft
          /\ IterationsLeft' >= 0
          /\ ret.i >= Len(arg.lines) => pc' = "parse_done"
          /\ ret'.i >= ret.i
          /\ ret'.i <= Len(arg.lines) + 1
          /\ SubSeq(ret'.blocks, 1, Len(ret.blocks)) = ret.blocks
          /\ SpansInOrder(ret'.spans, arg.lines, ret'.blocks)
          /\ pc' = "parse_done"
             => /\ parse_srt(arg.text).exc = "none"
                /\ parse_srt(arg.text).val = ret'.blocks
          /\ pc' = "failed" => parse_srt(arg.text).exc # "none"

\* C40: parse_srt terminates on every input (the number of iterations left
\* decreases with every iteration and is never negative): an iteration of its main loop
\* that does not end the loop moves the cursor forward by at least one line
\* and none moves it back; the lines of the segments lie one after the
\* other in the input, no line in two of them, and the segments are emitted
\* in the order of their index lines.
C40_ParseTerminates == [][C40_LoopStep]_vars

\* The loop was left after two iterations that made a segment each, the
\* cursor one past the last line.
C40_Witness ==
    /\ pc = "parse_done"
    /\ Len(ret.blocks) = 2
    /\ ret.iterations = 2
    /\ ret.spans[1][2] < ret.spans[2][1]
    /\ ret.i > Len(arg.lines)

====
